---------------------------- MODULE Spec2Model ----------------------------
(***************************************************************************)
(* Connectivity / recovery state machine and persisted-settings integrity  *)
(* layer of the SmartClock firmware (src/src/main.cpp, settings.cpp,       *)
(* webserver.cpp, display.cpp).                                            *)
(*                                                                         *)
(* Time is millis() in milliseconds.  32-bit words (the CRC) are pairs     *)
(* <<hi, lo>> of 16-bit halves.                                            *)
(***************************************************************************)
EXTENDS Integers, Sequences, FiniteSets, TLC

(***************************************************************************)
(* Program constants                                                       *)
(***************************************************************************)
FIRMWARE_VERSION == 2
SETTINGS_MAGIC == 51966
BOOT_COUNTER_MAGIC == 45063
POWER_CYCLE_COUNTER_MAGIC == 23553
BOOT_FAILURE_THRESHOLD == 5
POWER_CYCLE_THRESHOLD == 5
WIFI_TIMEOUT == 180
WIFI_RETRY_ATTEMPTS == 5
WIFI_RETRY_DELAY_MS == 2000
WIFI_CONNECTION_TIMEOUT == 30000
WIFI_MONITOR_INTERVAL == 60000
WIFI_RECONNECT_INTERVAL == 300000
WIFI_AP_NAME == "SmartClock-Setup"
GRACE_MS == 10000
\* two erased flash bytes read as a uint16_t
ERASED16 == 255 * 256 + 255
LASTIMAGE_SIZE == 64

(***************************************************************************)
(* Bounds of the model                                                     *)
(***************************************************************************)
\* millis() is not advanced by the main loop beyond this value
MaxMillis == 700000
\* no further boot is explored once a persisted counter reached this value
MaxCount == 6
\* web requests served in one boot session
MaxRequests == 1

\* the digit streams random() may deliver to generateRandomPassword
RandomStreams == { <<4, 8, 1, 5, 1, 6, 2, 3>>, <<0, 9, 0, 9, 7, 7, 3, 1>> }
\* time from WiFi.begin() to WL_CONNECTED when the network answers
LinkDelays == { 3000 }
\* time the main loop runs between two events of interest
LoopDelays == { 300000 }
\* time between two looks at a running config portal
PortalTicks == { 90000 }
\* the /set requests that arrive: the arguments present (server.hasArg)
\* and their values after toInt()
SetRequests ==
    { [args |-> {"brt", "img", "gmt"}, brt |-> 150, theme |-> 0,
       img |-> <<47, 97>>, gmt |-> 0],
      [args |-> {"theme"}, brt |-> 0, theme |-> 11, img |-> <<>>, gmt |-> 0] }
\* what an uninitialised stack byte may hold
StackBytes == { 0, 165 }

(***************************************************************************)
(* Bit arithmetic on 16-bit halves                                         *)
(***************************************************************************)
RECURSIVE XorBits(_, _)
XorBits(a, b) ==
    IF a = 0 THEN b
    ELSE IF b = 0 THEN a
    ELSE (((a % 2) + (b % 2)) % 2) + 2 * XorBits(a \div 2, b \div 2)

\* ^ on 4-bit values, tabulated
NibbleTable == [a \in 0..15 |-> [b \in 0..15 |-> XorBits(a, b)]]

\* ^ on 16-bit values, nibble by nibble
Xor(a, b) ==
    NibbleTable[a % 16][b % 16]
      + 16 * NibbleTable[(a \div 16) % 16][(b \div 16) % 16]
      + 256 * NibbleTable[(a \div 256) % 16][(b \div 256) % 16]
      + 4096 * NibbleTable[(a \div 4096) % 16][(b \div 4096) % 16]

Xor32(x, y) == << Xor(x[1], y[1]), Xor(x[2], y[2]) >>

\* x >> 4 on a 32-bit word
Shr4(x) == << x[1] \div 16, (x[2] \div 16) + 4096 * (x[1] % 16) >>

\* ~x on a 32-bit word
Not32(x) == << 65535 - x[1], 65535 - x[2] >>

crc32_table ==
    << <<0, 0>>, <<7607, 4196>>, <<15214, 8392>>, <<9945, 12460>>,
       <<30428, 16784>>, <<27499, 20980>>, <<19890, 24920>>, <<20485, 28988>>,
       <<60856, 33568>>, <<61455, 37700>>, <<54998, 41960>>, <<52065, 45964>>,
       <<39780, 49840>>, <<34515, 53972>>, <<40970, 57976>>, <<48573, 61980>> >>

\* one iteration of the loop body of settingsCalculateCRC
CrcStep(crc, byte) ==
    LET c0 == << crc[1], Xor(crc[2], byte) >>
        c1 == Xor32(crc32_table[(c0[2] % 16) + 1], Shr4(c0))
    IN  Xor32(crc32_table[(c1[2] % 16) + 1], Shr4(c1))

RECURSIVE CrcFold(_, _, _)
CrcFold(crc, data, i) ==
    IF i > Len(data) THEN crc
    ELSE LET c == CrcStep(crc, data[i])
         IN  IF c[1] >= 0 THEN CrcFold(c, data, i + 1) ELSE c

(***************************************************************************)
(* Settings record and its in-memory layout (settings.h)                   *)
(***************************************************************************)
\* little-endian bytes of a two's-complement 32-bit integer
LE32(v) == << v % 256, (v \div 256) % 256, (v \div 65536) % 256,
              (v \div 16777216) % 256 >>

LE16(v) == << v % 256, (v \div 256) % 256 >>

\* lastImage[64]: the string, its NUL, then the bytes behind the NUL
ImageBytes(s) ==
    [i \in 1..LASTIMAGE_SIZE |->
        IF i <= Len(s.lastImage) THEN s.lastImage[i]
        ELSE IF i = Len(s.lastImage) + 1 THEN 0
        ELSE s.tail]

\* the first sizeof(Settings) - sizeof(uint32_t) bytes of the struct
SettingsBytes(s) ==
    LE16(s.version) \o <<0, 0>> \o LE32(s.brightness) \o LE32(s.theme)
      \o ImageBytes(s) \o LE32(s.gmtOffset)
      \o << IF s.valid THEN 1 ELSE 0, 0, 0, 0 >>

\* the loop of settingsCalculateCRC over the bytes of the struct
CrcOfBytes(s) ==
    Not32(CrcFold(<<65535, 65535>>, SettingsBytes(s), 1))

\* the records the model saves most often, with their checksums worked
\* out once (an evaluation shortcut: CrcOfBytes gives the same values)
CrcKnown ==
    { << k, CrcOfBytes(k) >> :
        k \in [version : {FIRMWARE_VERSION},
               brightness : {70} \cup {IF r.brt > 100 THEN 100 ELSE r.brt : r \in SetRequests},
               theme : {0} \cup {r.theme : r \in SetRequests},
               lastImage : {<<>>} \cup {r.img : r \in SetRequests},
               tail : {0} \cup StackBytes,
               gmtOffset : {3600} \cup {r.gmt : r \in SetRequests},
               valid : {TRUE},
               crc : {<<0, 0>>}] }

settingsCalculateCRC(s) ==
    LET k == [s EXCEPT !.crc = <<0, 0>>]
    IN  IF \E p \in CrcKnown : p[1] = k
        THEN (CHOOSE p \in CrcKnown : p[1] = k)[2]
        ELSE CrcOfBytes(s)

settingsValidate(s) ==
    /\ s.version = FIRMWARE_VERSION
    /\ settingsCalculateCRC(s) = s.crc
    /\ ~(s.brightness < 0 \/ s.brightness > 100)
    /\ ~(s.theme < 0 \/ s.theme > 10)

\* a settingsReset that leaves the crc field as it finds it
settingsReset_StaleCrc(s) ==
    [version |-> FIRMWARE_VERSION, brightness |-> 70, theme |-> 0,
     lastImage |-> <<>>, tail |-> s.tail, gmtOffset |-> 3600,
     valid |-> TRUE, crc |-> s.crc]

\* settingsReset writes every field but the bytes behind lastImage[0]
settingsReset(s) ==
    LET r == [version |-> FIRMWARE_VERSION, brightness |-> 70, theme |-> 0,
              lastImage |-> <<>>, tail |-> s.tail, gmtOffset |-> 3600,
              valid |-> TRUE, crc |-> <<0, 0>>]
    IN  [r EXCEPT !.crc = settingsCalculateCRC(r)]

\* the record settingsSave puts into the EEPROM
SaveImage(s) ==
    LET t == [s EXCEPT !.version = FIRMWARE_VERSION]
    IN  [t EXCEPT !.crc = settingsCalculateCRC(t)]

\* a zero-initialised global Settings (appSettings before settingsLoad)
ZeroSettings ==
    [version |-> 0, brightness |-> 0, theme |-> 0, lastImage |-> <<>>,
     tail |-> 0, gmtOffset |-> 0, valid |-> FALSE, crc |-> <<0, 0>>]

\* erased flash read as a Settings struct
ErasedSettings ==
    [version |-> 65535, brightness |-> -1, theme |-> -1,
     lastImage |-> [i \in 1..LASTIMAGE_SIZE |-> 255], tail |-> 255, gmtOffset |-> -1, valid |-> TRUE, crc |-> <<65535, 65535>>]

\* the fields the program reads, without the checksum and the dead bytes
Fields(s) == << s.version, s.brightness, s.theme, s.lastImage, s.gmtOffset, s.valid >>


(***************************************************************************)
(* State                                                                   *)
(***************************************************************************)
VARIABLES
    \* EEPROM (committed contents)
    eeSettingsMagic,   \* the uint16_t at SETTINGS_ADDR
    eeSettings,        \* the Settings at SETTINGS_ADDR + 2
    eeBoot,            \* the BootCounter at BOOT_COUNTER_ADDR
    eePower,           \* the PowerCycleCounter at POWER_CYCLE_COUNTER_ADDR
    \* the EEPROM library's RAM copy, which put() writes and commit() stores
    eeBuffer,
    \* other persistent storage
    flashSSID,         \* the SDK's station config in flash holds an SSID
    fsMountable,       \* LittleFS.begin() succeeds
    \* globals of main.cpp
    appSettings,
    lastWiFiCheck,
    lastWiFiReconnectAttempt,
    wifiFailsafeMode,
    apPassword,
    powerCycleCounterCleared,
    \* the platform
    millis,
    wifiMode,          \* "OFF", "STA", "AP", "AP_STA"
    softAP,            \* the soft access point: [up, ssid, password]
    linkUp,            \* WiFi.status() == WL_CONNECTED
    staSSID,           \* WiFi.SSID() is not empty
    portalTimeout,     \* WiFiManager's config portal timeout, 0 = none
    \* display.cpp
    displayState,
    \* control
    pc,                \* position of the single thread of control
    tc,                \* the running tryConnectWiFi call
    portal,            \* the running config portal session
    \* history
    bootLog,           \* setup phases and reset steps of this boot session, in order
    restartReason,     \* why ESP.restart() was last called since power-up
    apStarts,          \* results of this session's WiFi.softAP() calls, in order
    panel,             \* what the TFT panel shows
    servicesUp,        \* NTP, mDNS and OTA were initialised in this session
    requests,          \* web requests served in this session
    \* logger.cpp
    logBuffer,
    logIndex,
    logCount,
    \* the logger's callers
    logCalls,          \* the messages passed to logPrint since loggerInit, in order
    logResult          \* the String the running handler got from logGetAll

eeprom == << eeSettingsMagic, eeSettings, eeBoot, eePower >>
persistent == << eeSettingsMagic, eeSettings, eeBoot, eePower, flashSSID, fsMountable >>
globals == << appSettings, lastWiFiCheck, lastWiFiReconnectAttempt,
              wifiFailsafeMode, apPassword, powerCycleCounterCleared >>
radio == << wifiMode, softAP, linkUp, staSSID, portalTimeout >>
history == << bootLog, restartReason, apStarts, servicesUp, requests >>
vars == << eeSettingsMagic, eeSettings, eeBoot, eePower, eeBuffer,
           flashSSID, fsMountable,
           appSettings, lastWiFiCheck, lastWiFiReconnectAttempt,
           wifiFailsafeMode, apPassword, powerCycleCounterCleared,
           millis, wifiMode, softAP, linkUp, staSSID, portalTimeout,
           displayState, panel, pc, tc, portal,
           bootLog, restartReason, apStarts, servicesUp, requests,
           logBuffer, logIndex, logCount, logCalls, logResult >>

LOG_BUFFER_SIZE == 50
logvars == << logBuffer, logIndex, logCount, logCalls, logResult >>

\* the logger's zero-initialised globals; no handler holds a log text
EmptyLogBuffer == [i \in 0..(LOG_BUFFER_SIZE - 1) |-> <<>>]
LoggerStart ==
    /\ logBuffer = EmptyLogBuffer
    /\ logIndex = 0
    /\ logCount = 0
    /\ logCalls = <<>>
    /\ logResult = <<>>

\* EEPROM.begin(EEPROM_SIZE): the committed contents, read into the buffer
Flash ==
    [settingsMagic |-> eeSettingsMagic, settings |-> eeSettings,
     boot |-> eeBoot, power |-> eePower]

NoAP == [up |-> FALSE, ssid |-> "", password |-> <<>>]
NoTry == [caller |-> "none", maxAttempts |-> 0, attempt |-> 0, result |-> FALSE]
NoPortal == [caller |-> "none", start |-> 0]
DisplayBoot ==
    [apMode |-> FALSE, showImage |-> FALSE, imagePath |-> <<>>,
     apSSID |-> "", apPassword |-> <<>>]

ErasedBoot == [magic |-> ERASED16, failCount |-> 255]
ErasedPower == [magic |-> ERASED16, cycleCount |-> 255]

(***************************************************************************)
(* Counters (settings.cpp)                                                 *)
(***************************************************************************)
bootCounterGet(c) == IF c.magic = BOOT_COUNTER_MAGIC THEN c.failCount ELSE 0

\* failCount is a uint8_t
bootCounterIncrement(c) ==
    IF c.magic = BOOT_COUNTER_MAGIC
    THEN [c EXCEPT !.failCount = (c.failCount + 1) % 256]
    ELSE [magic |-> BOOT_COUNTER_MAGIC, failCount |-> 1]

bootCounterReset == [magic |-> BOOT_COUNTER_MAGIC, failCount |-> 0]

\* a check that needs more failures than the threshold
bootCounterCheckFailsafe_Above(c) == bootCounterGet(c) > BOOT_FAILURE_THRESHOLD

bootCounterCheckFailsafe(c) == bootCounterGet(c) >= BOOT_FAILURE_THRESHOLD

powerCycleCounterGet(c) ==
    IF c.magic = POWER_CYCLE_COUNTER_MAGIC THEN c.cycleCount ELSE 0

powerCycleCounterIncrement(c) ==
    IF c.magic = POWER_CYCLE_COUNTER_MAGIC
    THEN [c EXCEPT !.cycleCount = (c.cycleCount + 1) % 256]
    ELSE [magic |-> POWER_CYCLE_COUNTER_MAGIC, cycleCount |-> 1]

\* a reset that leaves one power cycle counted
powerCycleCounterReset_KeepsOne ==
    [magic |-> POWER_CYCLE_COUNTER_MAGIC, cycleCount |-> 1]

powerCycleCounterReset == [magic |-> POWER_CYCLE_COUNTER_MAGIC, cycleCount |-> 0]

\* a check that needs more power cycles than the threshold
powerCycleCounterCheckReset_Above(c) ==
    powerCycleCounterGet(c) > POWER_CYCLE_THRESHOLD

powerCycleCounterCheckReset(c) == powerCycleCounterGet(c) >= POWER_CYCLE_THRESHOLD

(***************************************************************************)
(* Power-up and restart                                                    *)
(***************************************************************************)
Init ==
    /\ eeSettingsMagic = ERASED16
    /\ eeSettings = ErasedSettings
    /\ eeBoot = ErasedBoot
    /\ eePower = ErasedPower
    /\ eeBuffer = Flash
    /\ flashSSID \in BOOLEAN
    /\ fsMountable \in BOOLEAN
    /\ appSettings = ZeroSettings
    /\ lastWiFiCheck = 0
    /\ lastWiFiReconnectAttempt = 0
    /\ wifiFailsafeMode = FALSE
    /\ apPassword = <<>>
    /\ powerCycleCounterCleared = FALSE
    /\ millis = 0
    /\ wifiMode = "STA"
    /\ softAP = NoAP
    /\ linkUp = FALSE
    /\ staSSID = flashSSID
    /\ portalTimeout = 0
    /\ displayState = DisplayBoot
    /\ pc = "setup"
    /\ tc = NoTry
    /\ portal = NoPortal
    /\ bootLog = <<>>
    /\ restartReason = "none"
    /\ apStarts = <<>>
    /\ panel = "blank"
    /\ servicesUp = FALSE
    /\ requests = 0
    /\ LoggerStart

\* the RAM and the radio after a reset: static initialisers of main.cpp
ColdStart ==
    /\ eeBuffer' = Flash
    /\ appSettings' = ZeroSettings
    /\ lastWiFiCheck' = 0
    /\ lastWiFiReconnectAttempt' = 0
    /\ wifiFailsafeMode' = FALSE
    /\ apPassword' = <<>>
    /\ powerCycleCounterCleared' = FALSE
    /\ millis' = 0
    /\ wifiMode' = "STA"
    /\ softAP' = NoAP
    /\ linkUp' = FALSE
    /\ staSSID' = flashSSID
    /\ portalTimeout' = 0
    /\ displayState' = DisplayBoot
    /\ pc' = "setup"
    /\ tc' = NoTry
    /\ portal' = NoPortal
    /\ bootLog' = <<>>
    /\ apStarts' = <<>>
    /\ panel' = "blank"
    /\ servicesUp' = FALSE
    /\ requests' = 0

CountersBelowBound ==
    /\ bootCounterGet(eeBoot) < MaxCount
    /\ powerCycleCounterGet(eePower) < MaxCount

\* the user removes and restores power, at any moment
PowerCycle ==
    /\ pc # "setup"
    /\ CountersBelowBound
    /\ ColdStart
    /\ restartReason' = "none"
    /\ UNCHANGED persistent
    /\ UNCHANGED logvars

\* ESP.restart() takes effect
Restart ==
    /\ pc = "restarting"
    /\ CountersBelowBound
    /\ ColdStart
    /\ restartReason' = restartReason
    /\ UNCHANGED persistent
    /\ UNCHANGED logvars


(***************************************************************************)
(* setup(), main.cpp: counters and threshold checks                        *)
(***************************************************************************)
\* ESP.restart() after delay(d)
RestartAfter(d, reason) ==
    /\ millis' = millis + d
    /\ pc' = "restarting"
    /\ restartReason' = reason

\* a bootCounterIncrement that returns without EEPROM.commit()
SetupBootCounterInit_NoCommit ==
    /\ pc = "setup"
    /\ panel' = panel
    /\ eeBuffer' = [eeBuffer EXCEPT !.boot = bootCounterIncrement(eeBuffer.boot)]
    /\ eeBoot' = eeBoot
    /\ millis' = millis + 100
    /\ bootLog' = Append(bootLog, "bootCounterInit")
    /\ pc' = "setup_power"
    /\ UNCHANGED << eeSettingsMagic, eeSettings, eePower, flashSSID, fsMountable,
                    globals, radio, displayState, tc, portal,
                    restartReason, apStarts, servicesUp, requests >>
    /\ UNCHANGED logvars

\* setup() lines 462-482: serial, logger, settingsInit, bootCounterInit
SetupBootCounterInit ==
    /\ pc = "setup"
    /\ panel' = panel
    /\ eeBuffer' = [eeBuffer EXCEPT !.boot = bootCounterIncrement(eeBuffer.boot)]
    /\ eeBoot' = eeBuffer'.boot
    /\ millis' = millis + 100
    /\ bootLog' = Append(bootLog, "bootCounterInit")
    /\ pc' = "setup_power"
    /\ UNCHANGED << eeSettingsMagic, eeSettings, eePower, flashSSID, fsMountable,
                    globals, radio, displayState, tc, portal,
                    restartReason, apStarts, servicesUp, requests >>
    /\ UNCHANGED logvars

\* setup() line 484: powerCycleCounterInit
SetupPowerCycleCounterInit ==
    /\ pc = "setup_power"
    /\ panel' = panel
    /\ eeBuffer' = [eeBuffer EXCEPT !.power = powerCycleCounterIncrement(eeBuffer.power)]
    /\ eePower' = eeBuffer'.power
    /\ bootLog' = Append(bootLog, "powerCycleCounterInit")
    /\ pc' = "setup_check_power"
    /\ UNCHANGED << eeSettingsMagic, eeSettings, eeBoot, flashSSID, fsMountable,
                    globals, millis, radio, displayState, tc, portal,
                    restartReason, apStarts, servicesUp, requests >>
    /\ UNCHANGED logvars

\* a setup() that looks at the boot-failure counter first
SetupCheckPowerCycle_BootFailureFirst ==
    /\ pc = "setup_check_power"
    /\ panel' = panel
    /\ bootLog' = Append(bootLog, "powerCycleCheck")
    /\ pc' = IF bootCounterCheckFailsafe(eeBoot) THEN "emergency_settings"
             ELSE IF powerCycleCounterCheckReset(eePower) THEN "factory_wifi"
             ELSE "setup_check_boot"
    /\ UNCHANGED << persistent, globals, millis, radio, displayState, tc, portal,
                    restartReason, apStarts, servicesUp, requests >>
    /\ eeBuffer' = eeBuffer
    /\ UNCHANGED logvars

\* a threshold check that increments the power-cycle counter once more
SetupCheckPowerCycle_CountsAgain ==
    /\ pc = "setup_check_power"
    /\ panel' = panel
    /\ bootLog' = Append(bootLog, "powerCycleCheck")
    /\ pc' = IF powerCycleCounterCheckReset(eePower)
             THEN "factory_wifi" ELSE "setup_check_boot"
    /\ UNCHANGED << eeSettingsMagic, eeSettings, eeBoot, flashSSID, fsMountable,
                    globals, millis, radio, displayState, tc, portal,
                    restartReason, apStarts, servicesUp, requests >>
    /\ eeBuffer' = [eeBuffer EXCEPT !.power = powerCycleCounterIncrement(eeBuffer.power)]
    /\ eePower' = eeBuffer'.power
    /\ UNCHANGED logvars

\* setup() line 490: the power-cycle threshold check
SetupCheckPowerCycle ==
    /\ pc = "setup_check_power"
    /\ panel' = panel
    /\ bootLog' = Append(bootLog, "powerCycleCheck")
    /\ pc' = IF powerCycleCounterCheckReset(eePower)
             THEN "factory_wifi" ELSE "setup_check_boot"
    /\ UNCHANGED << persistent, globals, millis, radio, displayState, tc, portal,
                    restartReason, apStarts, servicesUp, requests >>
    /\ eeBuffer' = eeBuffer
    /\ UNCHANGED logvars

\* setup() lines 504-518: WiFi.disconnect(true), resetSettings, eraseConfig
SetupFactoryWiFi ==
    /\ pc = "factory_wifi"
    /\ panel' = panel
    /\ bootLog' = bootLog \o << "factoryReset", "reset:credentials" >>
    /\ flashSSID' = FALSE
    /\ staSSID' = FALSE
    /\ linkUp' = FALSE
    /\ wifiMode' = "OFF"
    /\ millis' = millis + 300
    /\ pc' = "factory_settings"
    /\ UNCHANGED << eeprom, fsMountable, globals, softAP, portalTimeout,
                    displayState, tc, portal,
                    restartReason, apStarts, servicesUp, requests >>
    /\ eeBuffer' = eeBuffer
    /\ UNCHANGED logvars

\* setup() lines 522-524: settingsReset(appSettings); settingsSave(appSettings)
SetupFactorySettings ==
    /\ pc = "factory_settings"
    /\ panel' = panel
    /\ appSettings' = settingsReset(appSettings)
    /\ eeBuffer' = [eeBuffer EXCEPT !.settingsMagic = SETTINGS_MAGIC,
                                  !.settings = SaveImage(appSettings')]
    /\ eeSettingsMagic' = eeBuffer'.settingsMagic
    /\ eeSettings' = eeBuffer'.settings
    /\ bootLog' = Append(bootLog, "reset:settings")
    /\ pc' = "factory_boot"
    /\ UNCHANGED << eeBoot, eePower, flashSSID, fsMountable,
                    lastWiFiCheck, lastWiFiReconnectAttempt, wifiFailsafeMode,
                    apPassword, powerCycleCounterCleared, millis, radio,
                    displayState, tc, portal,
                    restartReason, apStarts, servicesUp, requests >>
    /\ UNCHANGED logvars

\* setup() line 526: bootCounterReset
SetupFactoryBootCounter ==
    /\ pc = "factory_boot"
    /\ panel' = panel
    /\ eeBuffer' = [eeBuffer EXCEPT !.boot = bootCounterReset]
    /\ eeBoot' = eeBuffer'.boot
    /\ bootLog' = Append(bootLog, "reset:bootCounter")
    /\ pc' = "factory_power"
    /\ UNCHANGED << eeSettingsMagic, eeSettings, eePower, flashSSID, fsMountable,
                    globals, millis, radio, displayState, tc, portal,
                    restartReason, apStarts, servicesUp, requests >>
    /\ UNCHANGED logvars

\* setup() lines 528-536: powerCycleCounterReset; delay(5000); ESP.restart()
SetupFactoryPowerCounter ==
    /\ pc = "factory_power"
    /\ panel' = panel
    /\ eeBuffer' = [eeBuffer EXCEPT !.power = powerCycleCounterReset]
    /\ eePower' = eeBuffer'.power
    /\ bootLog' = Append(bootLog, "reset:powerCycleCounter")
    /\ RestartAfter(5000, "factoryResetBoot")
    /\ UNCHANGED << eeSettingsMagic, eeSettings, eeBoot, flashSSID, fsMountable,
                    globals, radio, displayState, tc, portal,
                    apStarts, servicesUp, requests >>
    /\ UNCHANGED logvars

\* setup() line 544: the boot-failure threshold check
SetupCheckBootFailure ==
    /\ pc = "setup_check_boot"
    /\ panel' = panel
    /\ bootLog' = Append(bootLog, "bootFailureCheck")
    /\ pc' = IF bootCounterCheckFailsafe(eeBoot)
             THEN "emergency_settings" ELSE "setup_load"
    /\ UNCHANGED << persistent, globals, millis, radio, displayState, tc, portal,
                    restartReason, apStarts, servicesUp, requests >>
    /\ eeBuffer' = eeBuffer
    /\ UNCHANGED logvars

\* setup() lines 558-560: settingsReset(appSettings); settingsSave(appSettings)
SetupEmergencySettings ==
    /\ pc = "emergency_settings"
    /\ panel' = panel
    /\ bootLog' = Append(bootLog, "emergencyReset")
    /\ appSettings' = settingsReset(appSettings)
    /\ eeBuffer' = [eeBuffer EXCEPT !.settingsMagic = SETTINGS_MAGIC,
                                  !.settings = SaveImage(appSettings')]
    /\ eeSettingsMagic' = eeBuffer'.settingsMagic
    /\ eeSettings' = eeBuffer'.settings
    /\ pc' = "emergency_boot"
    /\ UNCHANGED << eeBoot, eePower, flashSSID, fsMountable,
                    lastWiFiCheck, lastWiFiReconnectAttempt, wifiFailsafeMode,
                    apPassword, powerCycleCounterCleared, millis, radio,
                    displayState, tc, portal,
                    restartReason, apStarts, servicesUp, requests >>
    /\ UNCHANGED logvars

\* an emergency reset that resets the power-cycle counter as well
SetupEmergencyBootCounter_BothCounters ==
    /\ pc = "emergency_boot"
    /\ panel' = panel
    /\ eeBuffer' = [eeBuffer EXCEPT !.boot = bootCounterReset,
                                  !.power = powerCycleCounterReset]
    /\ eeBoot' = eeBuffer'.boot
    /\ eePower' = eeBuffer'.power
    /\ RestartAfter(5000, "emergencyReset")
    /\ UNCHANGED << eeSettingsMagic, eeSettings, flashSSID, fsMountable,
                    globals, radio, displayState, tc, portal,
                    bootLog, apStarts, servicesUp, requests >>
    /\ UNCHANGED logvars

\* setup() lines 562-570: bootCounterReset; delay(5000); ESP.restart()
SetupEmergencyBootCounter ==
    /\ pc = "emergency_boot"
    /\ panel' = panel
    /\ eeBuffer' = [eeBuffer EXCEPT !.boot = bootCounterReset]
    /\ eeBoot' = eeBuffer'.boot
    /\ RestartAfter(5000, "emergencyReset")
    /\ UNCHANGED << eeSettingsMagic, eeSettings, eePower, flashSSID, fsMountable,
                    globals, radio, displayState, tc, portal,
                    bootLog, apStarts, servicesUp, requests >>
    /\ UNCHANGED logvars

(***************************************************************************)
(* setup(): settings, display, filesystem                                  *)
(***************************************************************************)
\* what settingsLoad leaves in its argument
settingsLoad(magic, stored, arg) ==
    IF magic = SETTINGS_MAGIC
    THEN IF ~settingsValidate(stored) THEN settingsReset(stored) ELSE stored
    ELSE settingsReset(arg)

\* settingsLoad that saves the defaults only when the magic is missing
settingsLoadSaves_MagicOnly(magic, stored) ==
    magic # SETTINGS_MAGIC

\* settingsLoad calls settingsSave
settingsLoadSaves(magic, stored) ==
    magic # SETTINGS_MAGIC \/ ~settingsValidate(stored)

\* a settingsLoad that returns the defaults without saving them
SetupSettingsLoad_NoSave ==
    /\ pc = "setup_load"
    /\ panel' = panel
    /\ bootLog' = Append(bootLog, "settingsLoad")
    /\ appSettings' = settingsLoad(eeSettingsMagic, eeSettings, appSettings)
    /\ pc' = "setup_display"
    /\ UNCHANGED << eeBuffer, eeSettingsMagic, eeSettings, eeBoot, eePower,
                    flashSSID, fsMountable,
                    lastWiFiCheck, lastWiFiReconnectAttempt, wifiFailsafeMode,
                    apPassword, powerCycleCounterCleared, millis, radio,
                    displayState, tc, portal,
                    restartReason, apStarts, servicesUp, requests >>
    /\ UNCHANGED logvars

\* setup() line 578: settingsLoad(appSettings)
SetupSettingsLoad ==
    /\ pc = "setup_load"
    /\ panel' = panel
    /\ bootLog' = Append(bootLog, "settingsLoad")
    /\ appSettings' = settingsLoad(eeSettingsMagic, eeSettings, appSettings)
    /\ IF settingsLoadSaves(eeSettingsMagic, eeSettings)
       THEN /\ eeBuffer' = [eeBuffer EXCEPT !.settingsMagic = SETTINGS_MAGIC,
                                          !.settings = SaveImage(appSettings')]
            /\ eeSettingsMagic' = eeBuffer'.settingsMagic
            /\ eeSettings' = eeBuffer'.settings
       ELSE UNCHANGED << eeBuffer, eeSettingsMagic, eeSettings >>
    /\ pc' = "setup_display"
    /\ UNCHANGED << eeBoot, eePower, flashSSID, fsMountable,
                    lastWiFiCheck, lastWiFiReconnectAttempt, wifiFailsafeMode,
                    apPassword, powerCycleCounterCleared, millis, radio,
                    displayState, tc, portal,
                    restartReason, apStarts, servicesUp, requests >>
    /\ UNCHANGED logvars

\* a setup() that calls bootCounterReset as soon as the display is up
SetupDisplay_BootSuccessEarly ==
    /\ pc = "setup_display"
    /\ panel' = "message"
    /\ bootLog' = Append(bootLog, "displayInit")
    /\ displayState' = DisplayBoot
    /\ millis' = millis + 500 + 2000
    /\ pc' = "setup_fs"
    /\ eeBuffer' = [eeBuffer EXCEPT !.boot = bootCounterReset]
    /\ eeBoot' = eeBuffer'.boot
    /\ UNCHANGED << eeSettingsMagic, eeSettings, eePower, flashSSID, fsMountable,
                    globals, radio, tc, portal,
                    restartReason, apStarts, servicesUp, requests >>
    /\ UNCHANGED logvars

\* setup() lines 582-590: displayInit, brightness, button, message, delay
SetupDisplay ==
    /\ pc = "setup_display"
    /\ panel' = "message"
    /\ bootLog' = Append(bootLog, "displayInit")
    /\ displayState' = DisplayBoot
    /\ millis' = millis + 500 + 2000
    /\ pc' = "setup_fs"
    /\ UNCHANGED << persistent, globals, radio, tc, portal,
                    restartReason, apStarts, servicesUp, requests >>
    /\ eeBuffer' = eeBuffer
    /\ UNCHANGED logvars

\* setupFilesystem(): a failed mount is followed by format and restart
SetupFilesystem ==
    /\ pc = "setup_fs"
    /\ panel' = IF ~fsMountable THEN "message" ELSE panel
    /\ bootLog' = Append(bootLog, "setupFilesystem")
    /\ IF ~fsMountable
       THEN /\ fsMountable' \in BOOLEAN
            /\ RestartAfter(3000, "fsFormat")
       ELSE /\ pc' = "setup_wifi"
            /\ UNCHANGED << fsMountable, millis, restartReason >>
    /\ UNCHANGED << eeprom, flashSSID, globals, radio, displayState, tc, portal,
                    apStarts, servicesUp, requests >>
    /\ eeBuffer' = eeBuffer
    /\ UNCHANGED logvars


(***************************************************************************)
(* tryConnectWiFi(maxAttempts), main.cpp                                   *)
(***************************************************************************)
Min(a, b) == IF a < b THEN a ELSE b

RECURSIVE Pow2(_)
Pow2(n) == IF n = 0 THEN 1 ELSE 2 * Pow2(n - 1)

\* a backoff that grows by WIFI_RETRY_DELAY_MS with each try
BackoffDelay_Linear(attempt) == Min(WIFI_RETRY_DELAY_MS * attempt, 30000)

\* the delay before the next try, after try number attempt failed
BackoffDelay(attempt) == Min(WIFI_RETRY_DELAY_MS * Pow2(attempt - 1), 30000)

\* the call itself: the loop starts with attempt = 1
CallTryConnect(caller, maxAttempts) ==
    /\ tc' = [caller |-> caller, maxAttempts |-> maxAttempts, attempt |-> 1,
              result |-> FALSE]
    /\ pc' = IF 1 <= maxAttempts THEN "try" ELSE "try_done"

\* a tryConnectWiFi whose loop does not stop at maxAttempts
TryConnectAttempt_NoLimit ==
    /\ pc = "try"
    /\ panel' = "message"
    /\ wifiMode' = "STA"
    /\ softAP' = NoAP
    /\ \/ /\ staSSID
          /\ \E d \in LinkDelays :
               /\ d < WIFI_CONNECTION_TIMEOUT
               /\ millis' = millis + (IF linkUp THEN 0 ELSE d) + 2000
          /\ linkUp' = TRUE
          /\ tc' = [tc EXCEPT !.result = TRUE]
          /\ pc' = "try_done"
       \/ /\ ~linkUp
          /\ linkUp' = FALSE
          /\ millis' = millis + WIFI_CONNECTION_TIMEOUT + BackoffDelay(tc.attempt)
          /\ tc' = [tc EXCEPT !.attempt = tc.attempt + 1]
          /\ pc' = "try"
    /\ UNCHANGED << persistent, globals, staSSID, portalTimeout, displayState,
                    portal, history >>
    /\ eeBuffer' = eeBuffer
    /\ UNCHANGED logvars

\* one iteration of the for loop: WiFi.mode(WIFI_STA), WiFi.begin(), the
\* wait for WL_CONNECTED, and either the return or the backoff delay
TryConnectAttempt ==
    /\ pc = "try"
    /\ panel' = "message"
    /\ wifiMode' = "STA"
    /\ softAP' = NoAP
    /\ \/ \* the link comes up within WIFI_CONNECTION_TIMEOUT
          /\ staSSID
          /\ \E d \in LinkDelays :
               /\ d < WIFI_CONNECTION_TIMEOUT
               /\ millis' = millis + (IF linkUp THEN 0 ELSE d) + 2000
          /\ linkUp' = TRUE
          /\ tc' = [tc EXCEPT !.result = TRUE]
          /\ pc' = "try_done"
       \/ \* it does not
          /\ ~linkUp
          /\ linkUp' = FALSE
          /\ IF tc.attempt < tc.maxAttempts
             THEN /\ millis' = millis + WIFI_CONNECTION_TIMEOUT
                                 + BackoffDelay(tc.attempt)
                  /\ tc' = [tc EXCEPT !.attempt = tc.attempt + 1]
                  /\ pc' = "try"
             ELSE /\ millis' = millis + WIFI_CONNECTION_TIMEOUT
                  /\ tc' = [tc EXCEPT !.result = FALSE]
                  /\ pc' = "try_done"
    /\ UNCHANGED << persistent, globals, staSSID, portalTimeout, displayState,
                    portal, history >>
    /\ eeBuffer' = eeBuffer
    /\ UNCHANGED logvars

(***************************************************************************)
(* setupWiFi(), main.cpp                                                   *)
(***************************************************************************)
charset == << 0, 1, 2, 3, 4, 5, 6, 7, 8, 9 >>

\* the passwords generateRandomPassword(length) can return
generateRandomPassword(length) ==
    { [i \in 1..length |-> charset[r[i] + 1]] : r \in RandomStreams }

\* WiFi.softAP(WIFI_AP_NAME, password) in access-point mode, called once
\* for each element of results; the last result decides
StartSoftAP(password, results) ==
    /\ softAP' = IF results[Len(results)]
                 THEN [up |-> TRUE, ssid |-> WIFI_AP_NAME,
                       password |-> password]
                 ELSE NoAP
    /\ apStarts' = apStarts \o results

\* what displayUpdate() renders
displayUpdate(d) ==
    IF d.showImage /\ d.imagePath # <<>> THEN "image"
    ELSE IF d.apMode THEN "credentials" ELSE "clock"

\* displayShowAPScreen(ssid, password, ip)
displayShowAPScreen(d, ssid, password) ==
    [d EXCEPT !.apMode = TRUE, !.showImage = FALSE,
              !.apSSID = ssid, !.apPassword = password]

\* setupWiFi() lines 224-296: the failsafe access point.  WiFi.disconnect(true)
\* clears the current station config, and the one in flash when the SDK
\* runs with persistent storage enabled.  A failed WiFi.softAP() is retried
\* once.
FailsafeAP(password) ==
    /\ staSSID' = FALSE
    /\ flashSSID' \in {flashSSID, FALSE}
    /\ linkUp' = FALSE
    /\ wifiMode' = "AP"
    /\ \E results \in { <<TRUE>>, <<FALSE, TRUE>>, <<FALSE, FALSE>> } :
         /\ StartSoftAP(password, results)
         /\ millis' = millis + 1000 + (IF results[1] THEN 0 ELSE 3000) + 5000
    /\ wifiFailsafeMode' = TRUE
    /\ displayState' = displayShowAPScreen(displayState, WIFI_AP_NAME, password)
    /\ panel' = displayUpdate(displayState')
    /\ pc' = "setup_services"

\* a setupWiFi that tries the saved network without looking at WiFi.SSID()
SetupWiFiStart_AlwaysTry ==
    /\ pc = "setup_wifi"
    /\ bootLog' = Append(bootLog, "setupWiFi")
    /\ IF apPassword = <<>>
       THEN apPassword' \in generateRandomPassword(8)
       ELSE apPassword' = apPassword
    /\ CallTryConnect("setup", WIFI_RETRY_ATTEMPTS)
    /\ panel' = "message"
    /\ UNCHANGED << flashSSID, wifiFailsafeMode, millis, wifiMode,
                    softAP, linkUp, staSSID, displayState, apStarts >>
    /\ UNCHANGED << eeprom, fsMountable, appSettings, lastWiFiCheck,
                    lastWiFiReconnectAttempt, powerCycleCounterCleared,
                    portalTimeout, portal, restartReason, servicesUp, requests >>
    /\ eeBuffer' = eeBuffer
    /\ UNCHANGED logvars

\* setupWiFi() lines 110-158: password, saved SSID, then tryConnectWiFi(5) or,
\* with no saved SSID, the failsafe access point at once
SetupWiFiStart ==
    /\ pc = "setup_wifi"
    /\ bootLog' = Append(bootLog, "setupWiFi")
    /\ IF apPassword = <<>>
       THEN apPassword' \in generateRandomPassword(8)
       ELSE apPassword' = apPassword
    /\ IF ~staSSID
       THEN /\ FailsafeAP(apPassword')
            /\ tc' = tc
       ELSE /\ CallTryConnect("setup", WIFI_RETRY_ATTEMPTS)
            /\ panel' = "message"
            /\ UNCHANGED << flashSSID, wifiFailsafeMode, millis, wifiMode,
                            softAP, linkUp, staSSID, displayState, apStarts >>
    /\ UNCHANGED << eeprom, fsMountable, appSettings, lastWiFiCheck,
                    lastWiFiReconnectAttempt, powerCycleCounterCleared,
                    portalTimeout, portal, restartReason, servicesUp, requests >>
    /\ eeBuffer' = eeBuffer
    /\ UNCHANGED logvars

\* setupWiFi() lines 152-180: the outcome of tryConnectWiFi(5)
SetupWiFiAfterTry ==
    /\ pc = "try_done"
    /\ panel' = IF tc.result THEN panel ELSE "message"
    /\ tc.caller = "setup"
    /\ tc' = NoTry
    /\ IF tc.result
       THEN /\ wifiFailsafeMode' = FALSE
            /\ pc' = "setup_services"
            /\ UNCHANGED << millis, portalTimeout >>
       ELSE /\ millis' = millis + 1000
            /\ portalTimeout' = WIFI_TIMEOUT
            /\ pc' = "autoconnect"
            /\ UNCHANGED wifiFailsafeMode
    /\ UNCHANGED << persistent, appSettings, lastWiFiCheck,
                    lastWiFiReconnectAttempt, apPassword,
                    powerCycleCounterCleared, wifiMode, softAP, linkUp,
                    staSSID, displayState, portal, history >>
    /\ eeBuffer' = eeBuffer
    /\ UNCHANGED logvars

\* the access point and web portal WiFiManager opens
OpenPortal(caller) ==
    /\ portal' = [caller |-> caller, start |-> millis']
    /\ wifiMode' = "AP_STA"
    /\ softAP' = [up |-> TRUE, ssid |-> WIFI_AP_NAME, password |-> apPassword]
    /\ pc' = "portal"

\* setupWiFi() line 188: wifiManager.autoConnect() tries the saved
\* credentials once more and opens the config portal if that fails
SetupAutoConnect ==
    /\ pc = "autoconnect"
    /\ panel' = panel
    /\ \/ /\ staSSID
          /\ \E d \in LinkDelays : millis' = millis + d
          /\ linkUp' = TRUE
          /\ portal' = [caller |-> "setup", start |-> millis']
          /\ pc' = "portal_done"
          /\ UNCHANGED << wifiMode, softAP >>
       \/ /\ millis' = millis
          /\ linkUp' = linkUp
          /\ OpenPortal("setup")
    /\ UNCHANGED << persistent, globals, staSSID, portalTimeout, displayState,
                    tc, history >>
    /\ eeBuffer' = eeBuffer
    /\ UNCHANGED logvars

\* a setupWiFi() that starts over when autoConnect failed
SetupWiFiAfterPortal_StartOver ==
    /\ pc = "portal_done"
    /\ portal.caller = "setup"
    /\ portal' = NoPortal
    /\ IF linkUp
       THEN /\ wifiFailsafeMode' = FALSE
            /\ millis' = millis + 2000
            /\ panel' = "message"
            /\ pc' = "setup_services"
       ELSE /\ pc' = "setup_wifi"
            /\ UNCHANGED << wifiFailsafeMode, millis, panel >>
    /\ UNCHANGED << persistent, appSettings, lastWiFiCheck,
                    lastWiFiReconnectAttempt, apPassword,
                    powerCycleCounterCleared, radio, displayState, tc, history >>
    /\ eeBuffer' = eeBuffer
    /\ UNCHANGED logvars

\* setupWiFi() lines 190-296: the outcome of autoConnect, and the failsafe
\* access point when it failed
SetupWiFiAfterPortal ==
    /\ pc = "portal_done"
    /\ portal.caller = "setup"
    /\ portal' = NoPortal
    /\ IF linkUp
       THEN /\ wifiFailsafeMode' = FALSE
            /\ millis' = millis + 2000
            /\ panel' = "message"
            /\ pc' = "setup_services"
            /\ UNCHANGED << flashSSID, wifiMode, softAP, linkUp, staSSID,
                            displayState, apStarts >>
       ELSE FailsafeAP(apPassword)
    /\ UNCHANGED << eeprom, fsMountable, appSettings, lastWiFiCheck,
                    lastWiFiReconnectAttempt, apPassword,
                    powerCycleCounterCleared, portalTimeout, tc,
                    bootLog, restartReason, servicesUp, requests >>
    /\ eeBuffer' = eeBuffer
    /\ UNCHANGED logvars

(***************************************************************************)
(* The config portal of WiFiManager                                        *)
(***************************************************************************)
PortalElapsed == millis - portal.start

PortalTimedOut == portalTimeout > 0 /\ PortalElapsed >= portalTimeout * 1000

\* nobody submits anything for a while
PortalTick ==
    /\ pc = "portal"
    /\ panel' = panel
    /\ ~PortalTimedOut
    /\ \E d \in PortalTicks :
         /\ millis + d <= MaxMillis
         /\ millis' = millis + d
    /\ UNCHANGED << persistent, globals, radio, displayState, pc, tc, portal,
                    history >>
    /\ eeBuffer' = eeBuffer
    /\ UNCHANGED logvars

\* somebody submits credentials that work: they are stored and the portal
\* closes its access point
PortalSubmit ==
    /\ pc = "portal"
    /\ panel' = panel
    /\ ~PortalTimedOut
    /\ linkUp' = TRUE
    /\ staSSID' = TRUE
    /\ flashSSID' = TRUE
    /\ wifiMode' = "STA"
    /\ softAP' = NoAP
    /\ pc' = "portal_done"
    /\ UNCHANGED << eeprom, fsMountable, globals, millis, portalTimeout,
                    displayState, tc, portal, history >>
    /\ eeBuffer' = eeBuffer
    /\ UNCHANGED logvars

\* the configured timeout ends the session; whether the portal's access
\* point survives depends on the WiFiManager release
PortalTimeout ==
    /\ pc = "portal"
    /\ panel' = panel
    /\ PortalTimedOut
    /\ \E keep \in BOOLEAN :
         /\ softAP' = IF keep THEN softAP ELSE NoAP
         /\ wifiMode' = IF keep THEN "AP_STA" ELSE "STA"
    /\ pc' = "portal_done"
    /\ UNCHANGED << persistent, globals, millis, linkUp, staSSID, portalTimeout,
                    displayState, tc, portal, history >>
    /\ eeBuffer' = eeBuffer
    /\ UNCHANGED logvars


(***************************************************************************)
(* setup(): services and the boot-success checkpoint                       *)
(***************************************************************************)
\* setup() lines 606-712: NTP, mDNS, OTA, web server, first display update
SetupServices ==
    /\ pc = "setup_services"
    /\ bootLog' = Append(bootLog, "webserverInit")
    /\ servicesUp' = ~wifiFailsafeMode
    /\ displayState' = [displayState EXCEPT !.showImage = FALSE]
    /\ panel' = displayUpdate(displayState')
    /\ millis' = millis + (IF ~displayState.apMode THEN 2000 ELSE 0)
    /\ pc' = "setup_success"
    /\ UNCHANGED << persistent, globals, radio, tc, portal,
                    restartReason, apStarts, requests >>
    /\ eeBuffer' = eeBuffer
    /\ UNCHANGED logvars

\* setup() lines 718-732: bootCounterReset, the boot-success checkpoint
SetupBootSuccess ==
    /\ pc = "setup_success"
    /\ panel' = panel
    /\ bootLog' = Append(bootLog, "bootCounterReset")
    /\ eeBuffer' = [eeBuffer EXCEPT !.boot = bootCounterReset]
    /\ eeBoot' = eeBuffer'.boot
    /\ pc' = "loop"
    /\ UNCHANGED << eeSettingsMagic, eeSettings, eePower, flashSSID, fsMountable,
                    globals, millis, radio, displayState, tc, portal,
                    restartReason, apStarts, servicesUp, requests >>
    /\ UNCHANGED logvars

(***************************************************************************)
(* loop() and monitorWiFi(), main.cpp                                      *)
(***************************************************************************)
\* loop() lines 744-752: the grace-period clear of the power-cycle counter
GraceClear == ~powerCycleCounterCleared /\ millis > GRACE_MS

\* a monitorWiFi whose failsafe branch does not look at WiFi.SSID()
LoopMonitor_NoSSIDCheck ==
    /\ pc = "loop"
    /\ panel' = panel
    /\ IF GraceClear
       THEN /\ eeBuffer' = [eeBuffer EXCEPT !.power = powerCycleCounterReset]
            /\ eePower' = eeBuffer'.power
            /\ powerCycleCounterCleared' = TRUE
       ELSE UNCHANGED << eeBuffer, eePower, powerCycleCounterCleared >>
    /\ IF wifiFailsafeMode
       THEN /\ lastWiFiCheck' = lastWiFiCheck
            /\ IF millis - lastWiFiReconnectAttempt > WIFI_RECONNECT_INTERVAL
               THEN /\ lastWiFiReconnectAttempt' = millis
                    /\ CallTryConnect("failsafe", 2)
               ELSE /\ lastWiFiReconnectAttempt' = lastWiFiReconnectAttempt
                    /\ tc' = tc
                    /\ pc' = "loop_handle"
       ELSE /\ lastWiFiReconnectAttempt' = lastWiFiReconnectAttempt
            /\ IF millis - lastWiFiCheck > WIFI_MONITOR_INTERVAL
               THEN /\ lastWiFiCheck' = millis
                    /\ IF ~linkUp
                       THEN CallTryConnect("monitor", 3)
                       ELSE tc' = tc /\ pc' = "loop_handle"
               ELSE /\ lastWiFiCheck' = lastWiFiCheck
                    /\ tc' = tc
                    /\ pc' = "loop_handle"
    /\ UNCHANGED << eeSettingsMagic, eeSettings, eeBoot, flashSSID, fsMountable,
                    appSettings, wifiFailsafeMode, apPassword, millis, radio,
                    displayState, portal, history >>
    /\ UNCHANGED logvars

\* loop() lines 744-758: the grace-period clear, then monitorWiFi() up to
\* its call of tryConnectWiFi or its return
LoopMonitor ==
    /\ pc = "loop"
    /\ panel' = panel
    /\ IF GraceClear
       THEN /\ eeBuffer' = [eeBuffer EXCEPT !.power = powerCycleCounterReset]
            /\ eePower' = eeBuffer'.power
            /\ powerCycleCounterCleared' = TRUE
       ELSE UNCHANGED << eeBuffer, eePower, powerCycleCounterCleared >>
    /\ IF wifiFailsafeMode
       THEN /\ lastWiFiCheck' = lastWiFiCheck
            /\ IF staSSID /\ millis - lastWiFiReconnectAttempt > WIFI_RECONNECT_INTERVAL
               THEN /\ lastWiFiReconnectAttempt' = millis
                    /\ CallTryConnect("failsafe", 2)
               ELSE /\ lastWiFiReconnectAttempt' = lastWiFiReconnectAttempt
                    /\ tc' = tc
                    /\ pc' = "loop_handle"
       ELSE /\ lastWiFiReconnectAttempt' = lastWiFiReconnectAttempt
            /\ IF millis - lastWiFiCheck > WIFI_MONITOR_INTERVAL
               THEN /\ lastWiFiCheck' = millis
                    /\ IF ~linkUp
                       THEN CallTryConnect("monitor", 3)
                       ELSE tc' = tc /\ pc' = "loop_handle"
               ELSE /\ lastWiFiCheck' = lastWiFiCheck
                    /\ tc' = tc
                    /\ pc' = "loop_handle"
    /\ UNCHANGED << eeSettingsMagic, eeSettings, eeBoot, flashSSID, fsMountable,
                    appSettings, wifiFailsafeMode, apPassword, millis, radio,
                    displayState, portal, history >>
    /\ UNCHANGED logvars

\* monitorWiFi() lines 313-322: the outcome of the failsafe poll
MonitorFailsafeAfterTry ==
    /\ pc = "try_done"
    /\ panel' = panel
    /\ tc.caller = "failsafe"
    /\ tc' = NoTry
    /\ IF tc.result
       THEN /\ wifiFailsafeMode' = FALSE
            /\ RestartAfter(1000, "reconnected")
       ELSE /\ pc' = "loop_handle"
            /\ UNCHANGED << wifiFailsafeMode, millis, restartReason >>
    /\ UNCHANGED << persistent, appSettings, lastWiFiCheck,
                    lastWiFiReconnectAttempt, apPassword,
                    powerCycleCounterCleared, radio, displayState, portal,
                    bootLog, apStarts, servicesUp, requests >>
    /\ eeBuffer' = eeBuffer
    /\ UNCHANGED logvars

\* a monitorWiFi that enters failsafe mode without displayShowAPScreen
MonitorConnectedAfterTry_NoAPScreen ==
    /\ pc = "try_done"
    /\ tc.caller = "monitor"
    /\ tc' = NoTry
    /\ IF ~tc.result
       THEN /\ wifiMode' = "AP"
            /\ linkUp' = FALSE
            /\ \E ok \in BOOLEAN : StartSoftAP(apPassword, << ok >>)
            /\ wifiFailsafeMode' = TRUE
            /\ displayState' = displayState
            /\ panel' = "blank"
            /\ millis' = millis + 3000
       ELSE UNCHANGED << wifiMode, linkUp, softAP, apStarts, wifiFailsafeMode,
                         displayState, panel, millis >>
    /\ pc' = "loop_handle"
    /\ UNCHANGED << persistent, appSettings, lastWiFiCheck,
                    lastWiFiReconnectAttempt, apPassword,
                    powerCycleCounterCleared, staSSID, portalTimeout, portal,
                    bootLog, restartReason, servicesUp, requests >>
    /\ eeBuffer' = eeBuffer
    /\ UNCHANGED logvars

\* monitorWiFi() lines 332-349: the outcome of the three quick tries
MonitorConnectedAfterTry ==
    /\ pc = "try_done"
    /\ tc.caller = "monitor"
    /\ tc' = NoTry
    /\ IF ~tc.result
       THEN /\ wifiMode' = "AP"
            /\ linkUp' = FALSE
            /\ \E ok \in BOOLEAN : StartSoftAP(apPassword, << ok >>)
            /\ wifiFailsafeMode' = TRUE
            /\ displayState' =
                 displayShowAPScreen(displayState, WIFI_AP_NAME, apPassword)
            /\ panel' = displayUpdate(displayState')
            /\ millis' = millis + 3000
       ELSE UNCHANGED << wifiMode, linkUp, softAP, apStarts, wifiFailsafeMode,
                         displayState, panel, millis >>
    /\ pc' = "loop_handle"
    /\ UNCHANGED << persistent, appSettings, lastWiFiCheck,
                    lastWiFiReconnectAttempt, apPassword,
                    powerCycleCounterCleared, staSSID, portalTimeout, portal,
                    bootLog, restartReason, servicesUp, requests >>
    /\ eeBuffer' = eeBuffer
    /\ UNCHANGED logvars

\* loop() lines 769-794: the display fields follow wifiFailsafeMode unless
\* an image is shown
LoopDisplayFields(d) ==
    IF d.showImage THEN d
    ELSE IF ~wifiFailsafeMode
         THEN [d EXCEPT !.apMode = FALSE]
         ELSE [d EXCEPT !.apMode = TRUE, !.apSSID = WIFI_AP_NAME,
                        !.apPassword = apPassword]

\* a client can reach the web server
Reachable == linkUp \/ softAP.up

\* loop() lines 761-805 with no request waiting
LoopIdle ==
    /\ pc = "loop_handle"
    /\ displayState' = LoopDisplayFields(displayState)
    /\ panel' = IF displayState'.showImage THEN panel
                ELSE displayUpdate(displayState')
    /\ \E d \in LoopDelays :
         /\ millis + d <= MaxMillis
         /\ millis' = millis + d
    /\ pc' = "loop"
    /\ UNCHANGED << persistent, globals, radio, tc, portal, history >>
    /\ eeBuffer' = eeBuffer
    /\ UNCHANGED logvars

\* displayCycleNextPage(): nothing in AP mode; otherwise from the clock to
\* the image, if its file exists, and from the image back to the clock
displayCycleNextPage(d, exists) ==
    IF d.apMode THEN d
    ELSE IF ~d.showImage
         THEN IF d.imagePath # <<>> /\ exists
              THEN [d EXCEPT !.showImage = TRUE] ELSE d
         ELSE [d EXCEPT !.showImage = FALSE]

\* loop() lines 761-763: a short press of the button
ButtonShort ==
    /\ pc = "loop_handle"
    /\ ~displayState.apMode
    /\ \E exists \in BOOLEAN :
         displayState' = displayCycleNextPage(displayState, exists)
    /\ panel' = displayUpdate(displayState')
    /\ UNCHANGED << persistent, globals, millis, radio, pc, tc, portal, history >>
    /\ eeBuffer' = eeBuffer
    /\ UNCHANGED logvars

\* the station link is lost while the main loop runs
LinkDrop ==
    /\ pc = "loop"
    /\ panel' = panel
    /\ linkUp
    /\ linkUp' = FALSE
    /\ UNCHANGED << persistent, globals, millis, wifiMode, softAP, staSSID,
                    portalTimeout, displayState, pc, tc, portal, history >>
    /\ eeBuffer' = eeBuffer
    /\ UNCHANGED logvars


(***************************************************************************)
(* Web handlers, webserver.cpp (called from webserverHandle in loop())     *)
(***************************************************************************)
constrain(x, lo, hi) == IF x < lo THEN lo ELSE IF x > hi THEN hi ELSE x

\* strncpy(dst, src, n) into a char array: at most n characters are copied
strncpy(src, n) == IF Len(src) <= n THEN src ELSE SubSeq(src, 1, n)

\* appSettings after handleSet served the request
handleSetSettings(a, req) ==
    LET a1 == IF "brt" \in req.args
              THEN [a EXCEPT !.brightness = constrain(req.brt, 0, 100)] ELSE a
        a2 == IF "theme" \in req.args THEN [a1 EXCEPT !.theme = req.theme] ELSE a1
        a3 == IF "img" \in req.args
              THEN [a2 EXCEPT !.lastImage = strncpy(req.img, 63), !.tail = 0]
              ELSE a2
    IN  IF "gmt" \in req.args THEN [a3 EXCEPT !.gmtOffset = req.gmt] ELSE a3

\* handleSet(): every argument present is applied and saved at once
HandleSet ==
    /\ pc = "loop_handle"
    /\ Reachable
    /\ requests < MaxRequests
    /\ requests' = requests + 1
    /\ \E req \in SetRequests :
         /\ appSettings' = handleSetSettings(appSettings, req)
         /\ eeBuffer' = [eeBuffer EXCEPT !.settingsMagic = SETTINGS_MAGIC,
                                       !.settings = SaveImage(appSettings')]
         /\ eeSettingsMagic' = eeBuffer'.settingsMagic
         /\ eeSettings' = eeBuffer'.settings
         /\ displayState' =
              IF "img" \in req.args
              THEN [LoopDisplayFields(displayState) EXCEPT
                       !.imagePath = req.img, !.showImage = TRUE]
              ELSE LoopDisplayFields(displayState)
         /\ panel' = IF "img" \in req.args
                     THEN displayUpdate(displayState') ELSE panel
    /\ pc' = "loop"
    /\ UNCHANGED << eeBoot, eePower, flashSSID, fsMountable, lastWiFiCheck,
                    lastWiFiReconnectAttempt, wifiFailsafeMode, apPassword,
                    powerCycleCounterCleared, millis, radio, tc, portal,
                    bootLog, restartReason, apStarts, servicesUp >>
    /\ UNCHANGED logvars

\* a handleReconfigureWiFi that generates a new password for its portal
HandleReconfigureWiFi_NewPassword ==
    /\ pc = "loop_handle"
    /\ Reachable
    /\ requests < MaxRequests
    /\ requests' = requests + 1
    /\ displayState' = LoopDisplayFields(displayState)
    /\ wifiFailsafeMode' = TRUE
    /\ apPassword' \in generateRandomPassword(8)
    /\ panel' = "credentials"
    /\ millis' = millis + 100 + 1000
    /\ pc' = "reconfigure_portal"
    /\ UNCHANGED << persistent, appSettings, lastWiFiCheck,
                    lastWiFiReconnectAttempt,
                    powerCycleCounterCleared, radio, tc, portal,
                    bootLog, restartReason, apStarts, servicesUp >>
    /\ eeBuffer' = eeBuffer
    /\ UNCHANGED logvars

\* handleReconfigureWiFi() lines 439-445: the reply, wifiFailsafeMode and
\* the message with the access point's credentials
HandleReconfigureWiFi ==
    /\ pc = "loop_handle"
    /\ Reachable
    /\ requests < MaxRequests
    /\ requests' = requests + 1
    /\ displayState' = LoopDisplayFields(displayState)
    /\ wifiFailsafeMode' = TRUE
    /\ panel' = "credentials"
    /\ millis' = millis + 100 + 1000
    /\ pc' = "reconfigure_portal"
    /\ UNCHANGED << persistent, appSettings, lastWiFiCheck,
                    lastWiFiReconnectAttempt, apPassword,
                    powerCycleCounterCleared, radio, tc, portal,
                    bootLog, restartReason, apStarts, servicesUp >>
    /\ eeBuffer' = eeBuffer
    /\ UNCHANGED logvars

\* handleReconfigureWiFi() line 447: wifiManager.startConfigPortal()
ReconfigureStartPortal ==
    /\ pc = "reconfigure_portal"
    /\ millis' = millis
    /\ OpenPortal("reconfigure")
    /\ UNCHANGED << persistent, globals, linkUp, staSSID, portalTimeout,
                    displayState, panel, tc, history >>
    /\ eeBuffer' = eeBuffer
    /\ UNCHANGED logvars

\* handleReconfigureWiFi() lines 449-456: after startConfigPortal returned
ReconfigureAfterPortal ==
    /\ pc = "portal_done"
    /\ portal.caller = "reconfigure"
    /\ portal' = NoPortal
    /\ IF linkUp
       THEN /\ wifiFailsafeMode' = FALSE
            /\ panel' = "message"
            /\ millis' = millis + 2000
       ELSE UNCHANGED << wifiFailsafeMode, panel, millis >>
    /\ pc' = "loop"
    /\ UNCHANGED << persistent, appSettings, lastWiFiCheck,
                    lastWiFiReconnectAttempt, apPassword,
                    powerCycleCounterCleared, radio, displayState, tc, history >>
    /\ eeBuffer' = eeBuffer
    /\ UNCHANGED logvars

\* handleFactoryReset() lines 460-478: the WiFi credentials
HandleFactoryReset ==
    /\ pc = "loop_handle"
    /\ panel' = panel
    /\ Reachable
    /\ requests < MaxRequests
    /\ requests' = requests + 1
    /\ displayState' = LoopDisplayFields(displayState)
    /\ flashSSID' = FALSE
    /\ staSSID' = FALSE
    /\ linkUp' = FALSE
    /\ wifiMode' = IF softAP.up THEN "AP" ELSE "OFF"
    /\ millis' = millis + 400
    /\ bootLog' = Append(bootLog, "reset:credentials")
    /\ pc' = "web_factory_settings"
    /\ UNCHANGED << eeprom, fsMountable, globals, softAP, portalTimeout,
                    tc, portal, restartReason, apStarts,
                    servicesUp >>
    /\ eeBuffer' = eeBuffer
    /\ UNCHANGED logvars

\* handleFactoryReset() lines 481-485: defaults built in a local Settings
\* whose bytes behind lastImage[0] are never written
WebFactorySettings ==
    /\ pc = "web_factory_settings"
    /\ panel' = panel
    /\ \E garbage \in StackBytes :
         /\ eeBuffer' =
              [eeBuffer EXCEPT
                  !.settingsMagic = SETTINGS_MAGIC,
                  !.settings =
                     SaveImage(settingsReset([ZeroSettings EXCEPT !.tail = garbage]))]
         /\ eeSettingsMagic' = eeBuffer'.settingsMagic
         /\ eeSettings' = eeBuffer'.settings
    /\ bootLog' = Append(bootLog, "reset:settings")
    /\ pc' = "web_factory_boot"
    /\ UNCHANGED << eeBoot, eePower, flashSSID, fsMountable, globals, millis,
                    radio, displayState, tc, portal,
                    restartReason, apStarts, servicesUp, requests >>
    /\ UNCHANGED logvars

\* handleFactoryReset() lines 488-489: bootCounterReset
WebFactoryBootCounter ==
    /\ pc = "web_factory_boot"
    /\ panel' = panel
    /\ eeBuffer' = [eeBuffer EXCEPT !.boot = bootCounterReset]
    /\ eeBoot' = eeBuffer'.boot
    /\ bootLog' = Append(bootLog, "reset:bootCounter")
    /\ pc' = "web_factory_format"
    /\ UNCHANGED << eeSettingsMagic, eeSettings, eePower, flashSSID, fsMountable,
                    globals, millis, radio, displayState, tc, portal,
                    restartReason, apStarts, servicesUp, requests >>
    /\ UNCHANGED logvars

\* handleFactoryReset() lines 492-499: LittleFS.format(), delay, ESP.restart()
WebFactoryFormat ==
    /\ pc = "web_factory_format"
    /\ panel' = panel
    /\ fsMountable' \in BOOLEAN
    /\ bootLog' = Append(bootLog, "reset:format")
    /\ RestartAfter(1000, "factoryResetWeb")
    /\ UNCHANGED << eeprom, flashSSID, globals, radio, displayState, tc, portal,
                    apStarts, servicesUp, requests >>
    /\ eeBuffer' = eeBuffer
    /\ UNCHANGED logvars

\* handleWiFiConnect(): WiFi.begin(ssid, password) stores the credentials,
\* then at most 40 polls of 500 ms
HandleWiFiConnect ==
    /\ pc = "loop_handle"
    /\ panel' = panel
    /\ Reachable
    /\ requests < MaxRequests
    /\ requests' = requests + 1
    /\ displayState' = LoopDisplayFields(displayState)
    /\ flashSSID' = TRUE
    /\ staSSID' = TRUE
    /\ \/ /\ \E d \in LinkDelays :
               /\ d < 40 * 500
               /\ RestartAfter(100 + 200 + d + 1000, "wifiConnect")
          /\ wifiMode' = "STA"
          /\ softAP' = NoAP
          /\ linkUp' = TRUE
          /\ apStarts' = apStarts
       \/ /\ millis' = millis + 100 + 200 + 40 * 500
          /\ wifiMode' = "AP"
          /\ linkUp' = FALSE
          /\ \E ok \in BOOLEAN : StartSoftAP(apPassword, << ok >>)
          /\ pc' = "loop"
          /\ restartReason' = restartReason
    /\ UNCHANGED << eeprom, fsMountable, globals, portalTimeout, tc, portal,
                    bootLog, servicesUp >>
    /\ eeBuffer' = eeBuffer
    /\ UNCHANGED logvars

(***************************************************************************)
(* The system                                                              *)
(***************************************************************************)
Next ==
    \/ PowerCycle
    \/ Restart
    \/ SetupBootCounterInit
    \/ SetupPowerCycleCounterInit
    \/ SetupCheckPowerCycle
    \/ SetupFactoryWiFi
    \/ SetupFactorySettings
    \/ SetupFactoryBootCounter
    \/ SetupFactoryPowerCounter
    \/ SetupCheckBootFailure
    \/ SetupEmergencySettings
    \/ SetupEmergencyBootCounter
    \/ SetupSettingsLoad
    \/ SetupDisplay
    \/ SetupFilesystem
    \/ SetupWiFiStart
    \/ TryConnectAttempt
    \/ SetupWiFiAfterTry
    \/ SetupAutoConnect
    \/ SetupWiFiAfterPortal
    \/ PortalTick
    \/ PortalSubmit
    \/ PortalTimeout
    \/ SetupServices
    \/ SetupBootSuccess
    \/ LoopMonitor
    \/ MonitorFailsafeAfterTry
    \/ MonitorConnectedAfterTry
    \/ LoopIdle
    \/ LinkDrop
    \/ ButtonShort
    \/ HandleSet
    \/ HandleReconfigureWiFi
    \/ ReconfigureStartPortal
    \/ ReconfigureAfterPortal
    \/ HandleFactoryReset
    \/ WebFactorySettings
    \/ WebFactoryBootCounter
    \/ WebFactoryFormat
    \/ HandleWiFiConnect

Spec == Init /\ [][Next]_vars

(***************************************************************************)
(* Connectivity modes                                                      *)
(***************************************************************************)
InLog(e) == \E i \in 1..Len(bootLog) : bootLog[i] = e

\* setupWiFi() has returned in this boot session
WiFiResolved == pc = "setup_services" \/ InLog("webserverInit")

\* the connectivity mode: a config portal session while WiFiManager runs
\* one, Connecting until setupWiFi() returns, and afterwards what
\* wifiFailsafeMode says
Mode ==
    IF pc \in {"portal", "portal_done"} THEN "ConfigPortal"
    ELSE IF ~WiFiResolved THEN "Connecting"
    ELSE IF wifiFailsafeMode THEN "FailsafeAP"
    ELSE "Connected"

\* the step starts a new boot session
Reboot == pc' = "setup"

\* the main loop is between two handlers
InLoop == pc \in {"loop", "loop_handle"}

\* the latest WiFi.softAP() call of this session succeeded
LastAPStartSucceeded == apStarts # <<>> /\ apStarts[Len(apStarts)]

\* the fixed-name access point is on the air
APBroadcasting ==
    /\ softAP.up
    /\ softAP.ssid = WIFI_AP_NAME
    /\ wifiMode \in {"AP", "AP_STA"}

(***************************************************************************)
(* C1                                                                      *)
(***************************************************************************)
\* C1: whenever the main loop runs in FailsafeAP mode (wifiFailsafeMode
\* true) after an access point start that succeeded, the radio is in
\* access-point mode and broadcasts the fixed-name access point, also
\* after a failsafe reconnect poll whose tries all failed.
C1_FailsafeAPStaysUp ==
    (InLoop /\ Mode = "FailsafeAP" /\ LastAPStartSucceeded) => APBroadcasting

(***************************************************************************)
(* C2                                                                      *)
(***************************************************************************)
\* a factory reset has reached its ESP.restart()
FactoryResetRestart ==
    /\ pc = "restarting"
    /\ restartReason \in {"factoryResetBoot", "factoryResetWeb"}

\* the EEPROM holds validated factory defaults
PersistedDefaults ==
    /\ eeSettingsMagic = SETTINGS_MAGIC
    /\ settingsValidate(eeSettings)
    /\ Fields(eeSettings) = Fields(settingsReset(eeSettings))

InBootFactoryReset ==
    pc \in {"factory_wifi", "factory_settings", "factory_boot", "factory_power"}

\* C3: the boot on which the boot-failure count reaches 5 performs the
\* emergency reset, which leaves the network credentials alone: no such
\* boot runs the factory reset, which erases them.
C3_FifthFailedBootIsEmergencyReset ==
    (pc = "factory_wifi") => bootCounterGet(eeBoot) < BOOT_FAILURE_THRESHOLD

(***************************************************************************)
(* C4                                                                      *)
(***************************************************************************)
\* C4: every blocking connectivity operation ends after a bounded wait: a
\* running tryConnectWiFi is within its number of tries, and a running
\* config portal session, started at boot or by handleReconfigureWiFi, is
\* not older than the configured timeout of WIFI_TIMEOUT seconds.
C4_BlockingOperationsBounded ==
    /\ pc = "try" => tc.attempt <= tc.maxAttempts
    /\ pc = "portal" => PortalElapsed <= WIFI_TIMEOUT * 1000

(***************************************************************************)
(* C5                                                                      *)
(***************************************************************************)
\* control is inside setupWiFi()
InSetupWiFi ==
    \/ pc \in {"setup_wifi", "autoconnect"}
    \/ pc \in {"try", "try_done"} /\ tc.caller = "setup"
    \/ pc \in {"portal", "portal_done"} /\ portal.caller = "setup"

\* setupWiFi() has just returned
SetupWiFiReturned == pc = "setup_services"

\* the longest setupWiFi() can take: five tries with their backoff delays,
\* the config portal up to its timeout, the failsafe access point with its
\* retry, and the messages in between
SetupWiFiBound ==
    WIFI_RETRY_ATTEMPTS * WIFI_CONNECTION_TIMEOUT
      + BackoffDelay(1) + BackoffDelay(2) + BackoffDelay(3) + BackoffDelay(4)
      + 1000 + WIFI_TIMEOUT * 1000 + 1000 + 3000 + 5000

\* millis() when setup() calls setupWiFi()
SetupWiFiEntry == 100 + 500 + 2000

\* C5: whatever is persisted and however the network behaves, boot-time
\* setupWiFi returns within a bounded time, with the device either
\* Connected (wifiFailsafeMode false, station link up) or in FailsafeAP
\* (wifiFailsafeMode true, radio in access-point mode, credentials on the
\* display); nothing inside setupWiFi restarts the device or leaves it by
\* another way.
C5_SetupWiFiEndsConnectedOrFailsafe ==
    /\ [](InSetupWiFi =>
            /\ millis <= SetupWiFiEntry + SetupWiFiBound
            /\ tc.attempt <= WIFI_RETRY_ATTEMPTS)
    /\ [](SetupWiFiReturned =>
            /\ millis <= SetupWiFiEntry + SetupWiFiBound
            /\ Mode \in {"Connected", "FailsafeAP"}
            /\ Mode = "Connected" => linkUp /\ wifiMode = "STA" /\ ~softAP.up
            /\ Mode = "FailsafeAP" =>
                  /\ ~linkUp /\ wifiMode = "AP"
                  /\ displayState.apMode /\ panel = "credentials"
                  /\ apStarts # <<>>)
    /\ [][(InSetupWiFi /\ ~Reboot) => (InSetupWiFi' \/ SetupWiFiReturned')]_vars

\* setupWiFi returned after going through all of its stages: the tries,
\* the config portal running into its timeout, both access point starts
C5_Witness ==
    /\ SetupWiFiReturned
    /\ Mode = "FailsafeAP"
    /\ apStarts = << FALSE, FALSE >>
    /\ portalTimeout = WIFI_TIMEOUT
    /\ millis = SetupWiFiEntry + SetupWiFiBound

(***************************************************************************)
(* C6                                                                      *)
(***************************************************************************)
\* the phases of a boot session named by C6: WiFi acquisition, the config
\* portal, and the main loop once its grace-period check has run
AfterBootPhases ==
    pc \in {"try", "try_done", "autoconnect", "portal", "portal_done",
            "loop_handle", "reconfigure_portal"}

\* C6: once the device has been running for more than the grace period of
\* 10 s, the persisted power-cycle counter is 0, in whichever phase the
\* device is (WiFi acquisition, config portal or main loop).
C6_GraceClearsCounterInEveryPhase ==
    (millis > GRACE_MS /\ AfterBootPhases) => powerCycleCounterGet(eePower) = 0

(***************************************************************************)
(* C7                                                                      *)
(***************************************************************************)
LogIndex(e) == CHOOSE i \in 1..Len(bootLog) : bootLog[i] = e

\* phase a was begun before phase b, if b was begun at all
Before(a, b) == InLog(b) => (InLog(a) /\ LogIndex(a) < LogIndex(b))

Subsystems ==
    {"settingsLoad", "displayInit", "setupFilesystem", "setupWiFi",
     "webserverInit", "bootCounterReset"}

InBootEmergencyReset == pc \in {"emergency_settings", "emergency_boot"}

\* a boot-time reset ran in this session
BootResetRan == InLog("factoryReset") \/ InLog("emergencyReset")

\* C7: on every boot the power-cycle threshold check comes before the
\* boot-failure threshold check and both before settings load, display
\* init, filesystem setup and WiFi setup; with both counters at 5 or more
\* the factory reset runs, never the emergency reset; a tripped threshold
\* always leads to its reset, and a session that ran a reset ends in the
\* restart with no other subsystem initialised.
C7_ThresholdChecksFirst ==
    /\ Before("powerCycleCheck", "bootFailureCheck")
    /\ \A e \in Subsystems :
          Before("powerCycleCheck", e) /\ Before("bootFailureCheck", e)
    /\ InBootEmergencyReset => ~powerCycleCounterCheckReset(eePower)
    /\ pc = "setup_check_boot" => ~powerCycleCounterCheckReset(eePower)
    /\ pc = "setup_load" =>
          /\ ~powerCycleCounterCheckReset(eePower)
          /\ ~bootCounterCheckFailsafe(eeBoot)
    /\ BootResetRan =>
          /\ \A e \in Subsystems : ~InLog(e)
          /\ InBootFactoryReset \/ InBootEmergencyReset \/ pc = "restarting"
          /\ displayState = DisplayBoot /\ panel = "blank"
          /\ wifiMode # "AP" /\ ~softAP.up /\ ~servicesUp

\* both counters are at the threshold and the factory reset has begun
C7_Witness ==
    /\ pc = "factory_settings"
    /\ powerCycleCounterGet(eePower) >= POWER_CYCLE_THRESHOLD
    /\ bootCounterGet(eeBoot) >= BOOT_FAILURE_THRESHOLD
    /\ InLog("factoryReset")
    /\ Before("powerCycleCheck", "factoryReset")

(***************************************************************************)
(* C8                                                                      *)
(***************************************************************************)
\* C8: every change of wifiFailsafeMode from true to false within a boot
\* session is made on the way into ESP.restart(): the main loop does not
\* run again in Connected mode.
C8_ReconnectionRestarts ==
    [][(wifiFailsafeMode /\ ~wifiFailsafeMode' /\ ~Reboot)
          => pc' = "restarting"]_vars

(***************************************************************************)
(* C9                                                                      *)
(***************************************************************************)
\* the step handles the end of a config portal session
PortalEndHandled == pc = "portal_done" /\ ~Reboot

\* the access point is on the air under the session password, or the step
\* called WiFi.softAP() for it
FailsafeAPStarted ==
    \/ /\ softAP'.up
       /\ softAP'.ssid = WIFI_AP_NAME
       /\ softAP'.password = apPassword'
    \/ Len(apStarts') > Len(apStarts)

\* C9: when a config portal session ends, at boot or after
\* handleReconfigureWiFi, with a connection, the device is in Connected
\* mode; otherwise it is in FailsafeAP mode, the failsafe access point was
\* started under the session password and the display shows the access
\* point's credentials.
C9_PortalEndsConnectedOrFailsafe ==
    [][PortalEndHandled =>
         IF linkUp
         THEN Mode' = "Connected"
         ELSE /\ Mode' = "FailsafeAP"
              /\ FailsafeAPStarted
              /\ panel' = "credentials"]_vars

(***************************************************************************)
(* C10                                                                     *)
(***************************************************************************)
SpecModeChanges ==
    { << "Connecting", "Connected" >>, << "Connecting", "ConfigPortal" >>,
      << "ConfigPortal", "Connected" >>, << "ConfigPortal", "FailsafeAP" >>,
      << "FailsafeAP", "Connected" >>, << "Connected", "FailsafeAP" >> }

CodeModeChanges ==
    SpecModeChanges \cup
    { << "Connecting", "FailsafeAP" >>, << "FailsafeAP", "ConfigPortal" >> }

\* within a boot session the mode changes only along the pairs in allowed
ModeChangesWithin(allowed) ==
    (~Reboot /\ Mode' # Mode) => << Mode, Mode' >> \in allowed

\* C10 as stated: every change of connectivity mode is one of
\* Connecting->Connected, Connecting->ConfigPortal, ConfigPortal->Connected,
\* ConfigPortal->FailsafeAP, FailsafeAP->Connected, Connected->FailsafeAP.
C10_Original == [][ModeChangesWithin(SpecModeChanges)]_vars

\* C10: within a boot session every change of connectivity mode is one of
\* the six above, Connecting->FailsafeAP (no saved network at boot), or
\* FailsafeAP->ConfigPortal (handleReconfigureWiFi sets wifiFailsafeMode and
\* then opens the config portal, from Connected as well).
C10_ModeChanges == [][ModeChangesWithin(CodeModeChanges)]_vars

\* both additional changes have happened: the boot found no saved network
\* and went to FailsafeAP, and a reconfigure request opened the portal
C10_Witness ==
    /\ Mode = "ConfigPortal"
    /\ portal.caller = "reconfigure"
    /\ bootLog[Len(bootLog)] = "bootCounterReset"
    /\ apStarts # <<>>
    /\ portalTimeout = 0

(***************************************************************************)
(* C11                                                                     *)
(***************************************************************************)
\* the display state and the panel show the access point's credentials
CredentialsShown ==
    /\ displayState.apMode
    /\ ~displayState.showImage
    /\ displayState.apSSID = WIFI_AP_NAME
    /\ displayState.apPassword = apPassword
    /\ panel = "credentials"

\* C11: whenever the main loop runs in FailsafeAP mode, the display shows
\* the access point's credentials and no image instead, whatever requests
\* (/set?img=) or button presses have occurred since the mode was entered.
C11_FailsafeShowsCredentials ==
    (pc = "loop" /\ Mode = "FailsafeAP") => CredentialsShown

(***************************************************************************)
(* C12                                                                     *)
(***************************************************************************)
\* what the next boot's settingsLoad would return
NextBootSettings == settingsLoad(eeSettingsMagic, eeSettings, ZeroSettings)

\* the in-memory record and the persisted one satisfy the record
\* invariants, and the persisted one carries the values in memory
RecordsValid ==
    /\ settingsValidate(appSettings)
    /\ eeSettingsMagic = SETTINGS_MAGIC
    /\ settingsValidate(eeSettings)
    /\ Fields(NextBootSettings) = Fields(appSettings)

\* C12: after any sequence of /set requests, the in-memory settings record
\* and the persisted one have a matching crc, the firmware's version,
\* brightness in [0,100] and theme in [0,10], and the next boot's
\* settingsLoad returns the values that were set.
C12_SettersKeepRecordsValid == (pc = "loop") => RecordsValid

(***************************************************************************)
(* The settings store on its own (settings.cpp): settingsSave and          *)
(* settingsLoad applied to records and EEPROM contents drawn from bounded  *)
(* sets                                                                    *)
(***************************************************************************)
\* records a caller hands to settingsSave: brightness as handleSet clamps
\* it, theme and gmtOffset as handleSet stores them, the checksum either
\* current or left over from before the last change of a field
TestRecords ==
    { [k EXCEPT !.crc = IF fresh THEN settingsCalculateCRC(k) ELSE <<0, 0>>] :
        k \in [version : {FIRMWARE_VERSION},
               brightness : {0, 100},
               theme : {0, 10, 11},
               lastImage : {<<>>, <<47, 97>>},
               tail : {0},
               gmtOffset : {0, -3600},
               valid : {TRUE},
               crc : {<<0, 0>>}],
        fresh \in BOOLEAN }

\* contents of the EEPROM region of the Settings record
StoredContents ==
    [version : {FIRMWARE_VERSION, 1},
     brightness : {-1, 30, 70, 101},
     theme : {-1, 10, 11},
     lastImage : {<<47, 97>>},
     tail : {0},
     gmtOffset : {3600},
     valid : {TRUE},
     crc : {<<0, 0>>}]

StoredRecords ==
    {ErasedSettings}
      \cup { [k EXCEPT !.crc = settingsCalculateCRC(k)] : k \in StoredContents }
      \cup { [k EXCEPT !.crc = <<4660, 22136>>] : k \in StoredContents }

\* the variables the settings store does not touch
aroundStore == << eeBoot, eePower, flashSSID, fsMountable, lastWiFiCheck,
                  lastWiFiReconnectAttempt, wifiFailsafeMode, apPassword,
                  powerCycleCounterCleared, millis, radio, displayState,
                  panel, tc, portal, history >>

StoreInit ==
    /\ \/ /\ appSettings \in TestRecords
          /\ eeSettingsMagic = ERASED16
          /\ eeSettings = ErasedSettings
          /\ pc = "store_idle"
       \/ /\ appSettings = ZeroSettings
          /\ eeSettingsMagic \in {ERASED16, SETTINGS_MAGIC}
          /\ eeSettings \in StoredRecords
          /\ pc = "store_boot"
    /\ eeBoot = ErasedBoot
    /\ eePower = ErasedPower
    /\ eeBuffer = Flash
    /\ flashSSID = FALSE
    /\ fsMountable = TRUE
    /\ lastWiFiCheck = 0
    /\ lastWiFiReconnectAttempt = 0
    /\ wifiFailsafeMode = FALSE
    /\ apPassword = <<>>
    /\ powerCycleCounterCleared = FALSE
    /\ millis = 0
    /\ wifiMode = "STA"
    /\ softAP = NoAP
    /\ linkUp = FALSE
    /\ staSSID = FALSE
    /\ portalTimeout = 0
    /\ displayState = DisplayBoot
    /\ tc = NoTry
    /\ portal = NoPortal
    /\ bootLog = <<>>
    /\ restartReason = "none"
    /\ apStarts = <<>>
    /\ panel = "blank"
    /\ servicesUp = FALSE
    /\ requests = 0
    /\ LoggerStart

\* settingsSave(appSettings), by a caller that holds a record
StoreSave ==
    /\ pc \in {"store_idle", "store_kept", "store_reset"}
    /\ eeBuffer' = [eeBuffer EXCEPT !.settingsMagic = SETTINGS_MAGIC,
                                  !.settings = SaveImage(appSettings)]
    /\ eeSettingsMagic' = eeBuffer'.settingsMagic
    /\ eeSettings' = eeBuffer'.settings
    /\ pc' = "store_saved"
    /\ UNCHANGED << appSettings, aroundStore >>
    /\ UNCHANGED logvars

\* settingsLoad(appSettings)
StoreLoad ==
    /\ pc \in {"store_boot", "store_idle", "store_saved"}
    /\ appSettings' = settingsLoad(eeSettingsMagic, eeSettings, appSettings)
    /\ IF settingsLoadSaves(eeSettingsMagic, eeSettings)
       THEN /\ eeBuffer' = [eeBuffer EXCEPT !.settingsMagic = SETTINGS_MAGIC,
                                          !.settings = SaveImage(appSettings')]
            /\ eeSettingsMagic' = eeBuffer'.settingsMagic
            /\ eeSettings' = eeBuffer'.settings
            /\ pc' = IF pc = "store_saved" THEN "store_saved_reset" ELSE "store_reset"
       ELSE /\ UNCHANGED << eeBuffer, eeSettingsMagic, eeSettings >>
            /\ pc' = IF pc = "store_saved" THEN "store_saved_kept" ELSE "store_kept"
    /\ UNCHANGED aroundStore
    /\ UNCHANGED logvars

\* the sizeof(Settings) bytes EEPROM.put writes for a record: the bytes the
\* checksum covers, then the checksum, least significant byte first
SettingsRegion(s) ==
    SettingsBytes(s) \o LE16(s.crc[2]) \o LE16(s.crc[1])

\* a region with the byte at offset i - 1 changed by the bits of mask
DamagedRegion(b, i, mask) == [b EXCEPT ![i] = Xor(b[i], mask)]

\* fields of the struct EEPROM.get fills from a region
RegionU16(b, o) == b[o] + 256 * b[o + 1]

RegionS32(b, o) ==
    b[o] + 256 * b[o + 1] + 65536 * b[o + 2]
      + 16777216 * (IF b[o + 3] >= 128 THEN b[o + 3] - 256 ELSE b[o + 3])

RegionCrc(b) == << RegionU16(b, 87), RegionU16(b, 85) >>

\* lastImage read as a C string: up to the first NUL of the 64 bytes
RegionString(b) ==
    LET nuls == { j \in 1..LASTIMAGE_SIZE : b[12 + j] = 0 }
        n == IF nuls = {} THEN LASTIMAGE_SIZE
             ELSE (CHOOSE j \in nuls : \A k \in nuls : j <= k) - 1
    IN  [j \in 1..n |-> b[12 + j]]

\* the struct after EEPROM.get(SETTINGS_ADDR + sizeof(uint16_t), settings);
\* tail stands for the bytes behind the string's NUL
RegionSettings(b) ==
    [version |-> RegionU16(b, 1),
     brightness |-> RegionS32(b, 5),
     theme |-> RegionS32(b, 9),
     lastImage |-> RegionString(b),
     tail |-> b[12 + LASTIMAGE_SIZE],
     gmtOffset |-> RegionS32(b, 77),
     valid |-> b[81] # 0,
     crc |-> RegionCrc(b)]

\* settingsValidate without the comparison of the checksum
settingsValidateRegion_NoCrc(b) ==
    /\ RegionU16(b, 1) = FIRMWARE_VERSION
    /\ ~(RegionS32(b, 5) < 0 \/ RegionS32(b, 5) > 100)
    /\ ~(RegionS32(b, 9) < 0 \/ RegionS32(b, 9) > 10)

\* settingsValidate on the struct EEPROM.get filled from region b
settingsValidateRegion(b) ==
    /\ RegionU16(b, 1) = FIRMWARE_VERSION
    /\ Not32(CrcFold(<<65535, 65535>>, SubSeq(b, 1, Len(b) - 4), 1)) = RegionCrc(b)
    /\ ~(RegionS32(b, 5) < 0 \/ RegionS32(b, 5) > 100)
    /\ ~(RegionS32(b, 9) < 0 \/ RegionS32(b, 9) > 10)

\* what settingsLoad leaves in its argument when the magic is in place and
\* the region holds bytes b
settingsLoadRegion(b) ==
    IF ~settingsValidateRegion(b)
    THEN settingsReset(RegionSettings(b))
    ELSE RegionSettings(b)

\* offsets and bit patterns of the single-byte changes tried
DamageOffsets == 1..Len(SettingsRegion(ZeroSettings))
DamageMasks == {1, 2, 4, 8, 16, 32, 64, 128, 255}

\* one byte of the stored record changes, then settingsLoad(appSettings)
StoreLoadDamaged ==
    /\ pc = "store_boot"
    /\ eeSettingsMagic = SETTINGS_MAGIC
    /\ settingsValidate(eeSettings)
    /\ \E i \in DamageOffsets, mask \in DamageMasks :
         LET b == DamagedRegion(SettingsRegion(eeSettings), i, mask)
         IN  /\ appSettings' = settingsLoadRegion(b)
             /\ IF ~settingsValidateRegion(b)
                THEN /\ eeBuffer' = [eeBuffer EXCEPT !.settings = SaveImage(appSettings')]
                     /\ eeSettings' = eeBuffer'.settings
                     /\ pc' = "store_damaged_reset"
                ELSE /\ eeBuffer' = [eeBuffer EXCEPT !.settings = RegionSettings(b)]
                     /\ eeSettings' = RegionSettings(b)
                     /\ pc' = "store_damaged_kept"
    /\ UNCHANGED << eeSettingsMagic, aroundStore >>
    /\ UNCHANGED logvars

\* settingsReset(appSettings), on whatever the caller's record holds
StoreReset ==
    /\ pc \in {"store_boot", "store_idle", "store_kept", "store_reset"}
    /\ appSettings' = settingsReset(appSettings)
    /\ pc' = "store_defaults"
    /\ UNCHANGED << eeBuffer, eeSettingsMagic, eeSettings, aroundStore >>
    /\ UNCHANGED logvars

StoreNext ==
    \/ StoreSave
    \/ StoreLoad
    \/ StoreLoadDamaged
    \/ StoreReset

StoreSpec == StoreInit /\ [][StoreNext]_vars

(***************************************************************************)
(* C13: save, then load                                                    *)
(***************************************************************************)
\* the step of the settingsLoad call that directly follows a settingsSave
LoadAfterSave == pc = "store_saved" /\ pc' \in {"store_saved_kept", "store_saved_reset"}

\* C13: for every record r passed to settingsSave, the settingsLoad that
\* directly follows returns a record equal to r in every field, the format
\* version and the integrity code included (the code of r being the one that
\* belongs to r's contents).
C13_SaveLoadRoundTrip ==
    [][LoadAfterSave =>
         /\ Fields(appSettings') = Fields(appSettings)
         /\ appSettings'.crc = settingsCalculateCRC(appSettings)]_vars

(***************************************************************************)
(* C14: settingsLoad always returns a valid record                         *)
(***************************************************************************)
\* a step of settingsLoad on the region as it stands
LoadReturns ==
    /\ pc \in {"store_boot", "store_idle", "store_saved"}
    /\ pc' \in {"store_kept", "store_reset", "store_saved_kept", "store_saved_reset"}

\* the magic is in place and the stored record passes settingsValidate
StoredAccepted == eeSettingsMagic = SETTINGS_MAGIC /\ settingsValidate(eeSettings)

\* the fields settingsReset assigns
DefaultFields == Fields(settingsReset(ZeroSettings))

\* C14: whatever the settings region holds (no magic, another version, a
\* wrong checksum, brightness or theme out of range, or a valid record),
\* settingsLoad returns a record that passes settingsValidate; a rejected
\* region gives the factory defaults, which are in the EEPROM when the load
\* returns; a valid record is returned as stored and nothing is written.
C14_LoadAlwaysValid ==
    [][LoadReturns =>
         /\ settingsValidate(appSettings')
         /\ IF StoredAccepted
            THEN /\ appSettings' = eeSettings
                 /\ UNCHANGED << eeSettingsMagic, eeSettings >>
            ELSE /\ Fields(appSettings') = DefaultFields
                 /\ eeSettingsMagic' = SETTINGS_MAGIC
                 /\ settingsValidate(eeSettings')
                 /\ Fields(eeSettings') = DefaultFields]_vars

\* a load at boot rejected what the region held and returned
C14_Witness ==
    /\ pc = "store_reset"
    /\ Fields(appSettings) = DefaultFields
    /\ eeSettingsMagic = SETTINGS_MAGIC
    /\ Fields(eeSettings) = DefaultFields

(***************************************************************************)
(* C15: one changed byte in the stored record                              *)
(***************************************************************************)
\* settingsLoad has returned after one byte of a valid stored record changed
DamagedLoadReturned == pc \in {"store_damaged_reset", "store_damaged_kept"}

\* C15: for every valid stored Settings record and every change of exactly
\* one of its bytes (any field, the padding and the crc included; the magic
\* lies outside the record), the next settingsLoad returns the factory
\* defaults, never the altered values.
C15_SingleByteDamageGivesDefaults ==
    DamagedLoadReturned =>
        /\ pc = "store_damaged_reset"
        /\ Fields(appSettings) = DefaultFields

\* a damaged record was read, rejected and replaced
C15_Witness ==
    /\ pc = "store_damaged_reset"
    /\ Fields(appSettings) = DefaultFields
    /\ Fields(eeSettings) = DefaultFields

(***************************************************************************)
(* C16: the five boot-time connection attempts                             *)
(***************************************************************************)
\* an iteration of tryConnectWiFi, called by setupWiFi, ends without a link
SetupTryFails ==
    /\ pc = "try"
    /\ tc.caller = "setup"
    /\ pc' \in {"try", "try_done"}
    /\ ~linkUp'

\* the delays before attempts 2, 3, 4 and 5
BackoffTable == << 2000, 4000, 8000, 16000 >>

SetupWiFiWithoutSSID == pc = "setup_wifi" /\ ~staSSID /\ pc' # "setup"

\* C17: when WiFi.SSID() is empty at boot, setupWiFi calls tryConnectWiFi
\* not once and returns in FailsafeAP mode, having started the access point
\* (WiFi.softAP called; when it succeeds the access point is up) under the
\* fixed name and the session password.
C17_NoSavedNetworkGoesToFailsafe ==
    [][SetupWiFiWithoutSSID =>
         /\ pc' = "setup_services"
         /\ tc' = NoTry
         /\ Mode' = "FailsafeAP"
         /\ apPassword' # <<>>
         /\ Len(apStarts') > Len(apStarts)
         /\ softAP'.up = apStarts'[Len(apStarts')]
         /\ softAP'.up => (/\ softAP'.ssid = WIFI_AP_NAME
                           /\ softAP'.password = apPassword'
                           /\ wifiMode' = "AP")]_vars

\* setupWiFi has returned in FailsafeAP mode without a portal session
C17_Witness ==
    /\ pc = "setup_services"
    /\ Mode = "FailsafeAP"
    /\ portalTimeout = 0
    /\ tc = NoTry
    /\ softAP.up
    /\ softAP.password = apPassword

(***************************************************************************)
(* C18: monitorWiFi while Connected                                        *)
(***************************************************************************)
\* monitorWiFi() reads WiFi.status() in its normal-mode branch
LinkChecked == pc = "loop" /\ pc' # "setup" /\ lastWiFiCheck' # lastWiFiCheck

\* tryConnectWiFi is entered from the normal-mode branch
MonitorTriesBegin == tc.caller # "monitor" /\ tc'.caller = "monitor"

\* the tryConnectWiFi(3) of the normal-mode branch has returned
MonitorTriesReturned == pc = "try_done" /\ tc.caller = "monitor" /\ pc' # "setup"

\* C18: in Connected mode monitorWiFi checks the link only when more than
\* WIFI_MONITOR_INTERVAL (60 s) has passed since the previous check; a check
\* that finds the link down starts up to 3 connection tries; when one
\* succeeds the device stays Connected; when all 3 fail the device is in
\* FailsafeAP mode, WiFi.softAP has been called with the fixed name and the
\* session password, the display shows the access point's credentials, and
\* the device does not restart.
C18_MonitorConnected ==
    [][/\ LinkChecked =>
             /\ Mode = "Connected"
             /\ millis - lastWiFiCheck > 60000
             /\ lastWiFiCheck' = millis
       /\ MonitorTriesBegin =>
             /\ LinkChecked
             /\ ~linkUp
             /\ tc'.maxAttempts = 3
             /\ tc'.attempt = 1
       /\ (pc = "try" /\ tc.caller = "monitor") => tc.attempt \in 1..3
       /\ MonitorTriesReturned =>
             IF tc.result
             THEN /\ linkUp
                  /\ Mode' = "Connected"
                  /\ pc' = "loop_handle"
             ELSE /\ tc.attempt = 3
                  /\ Mode' = "FailsafeAP"
                  /\ Len(apStarts') = Len(apStarts) + 1
                  /\ softAP'.up = apStarts'[Len(apStarts')]
                  /\ softAP'.up => (/\ softAP'.ssid = WIFI_AP_NAME
                                    /\ softAP'.password = apPassword
                                    /\ wifiMode' = "AP")
                  /\ apPassword # <<>>
                  /\ panel' = "credentials"
                  /\ displayState'.apPassword = apPassword
                  /\ pc' = "loop_handle"]_vars

\* three tries after a check have failed and monitorWiFi has returned with
\* the access point up: 3 timeouts, backoffs of 2 s and 4 s, delay(3000)
C18_Witness ==
    /\ pc = "loop_handle"
    /\ Mode = "FailsafeAP"
    /\ lastWiFiCheck > 0
    /\ millis = lastWiFiCheck + 3 * 30000 + 2000 + 4000 + 3000
    /\ softAP.up
    /\ panel = "credentials"

(***************************************************************************)
(* C19: monitorWiFi in FailsafeAP mode                                     *)
(***************************************************************************)
\* tryConnectWiFi is entered from the failsafe branch of monitorWiFi
FailsafePollBegins == tc.caller # "failsafe" /\ tc'.caller = "failsafe"

\* C19: in FailsafeAP mode monitorWiFi starts a reconnection attempt only
\* when WiFi.SSID() is not empty and more than WIFI_RECONNECT_INTERVAL
\* (5 minutes) has passed since the previous failsafe reconnection attempt;
\* an attempt makes at most 2 connection tries; with an empty WiFi.SSID()
\* no attempt is made and the device stays in FailsafeAP mode.
C19_FailsafePoll ==
    [][/\ FailsafePollBegins =>
             /\ pc = "loop"
             /\ Mode = "FailsafeAP"
             /\ staSSID
             /\ millis - lastWiFiReconnectAttempt > 300000
             /\ lastWiFiReconnectAttempt' = millis
             /\ tc'.maxAttempts = 2
             /\ tc'.attempt = 1
       /\ (pc = "try" /\ tc.caller = "failsafe") => tc.attempt \in 1..2
       /\ (pc' # "setup" /\ lastWiFiReconnectAttempt' # lastWiFiReconnectAttempt)
             => FailsafePollBegins
       /\ (pc = "loop" /\ Mode = "FailsafeAP" /\ ~staSSID /\ pc' # "setup") =>
             /\ pc' = "loop_handle"
             /\ tc' = NoTry
             /\ Mode' = "FailsafeAP"]_vars

\* a failsafe reconnection attempt has used both of its tries
C19_Witness ==
    /\ pc = "try_done"
    /\ tc.caller = "failsafe"
    /\ tc.attempt = 2
    /\ ~tc.result
    /\ Mode = "FailsafeAP"
    /\ millis = lastWiFiReconnectAttempt + 2 * 30000 + 2000

(***************************************************************************)
(* C20: the retry of a failed access point start                           *)
(***************************************************************************)
\* a step in which the firmware calls WiFi.softAP for the failsafe access point
APStartStep == pc' # "setup" /\ Len(apStarts') > Len(apStarts)

\* C20: wherever the failsafe access point is started (setupWiFi,
\* monitorWiFi, handleWiFiConnect), a first WiFi.softAP that succeeds is the
\* only call, and a first WiFi.softAP that fails is followed by exactly one
\* more call; whatever the retry gives, the device goes on without a restart.
C20_APStartRetriedOnce ==
    [][APStartStep =>
         LET first == apStarts'[Len(apStarts) + 1]
             calls == Len(apStarts') - Len(apStarts)
         IN  /\ first => calls = 1
             /\ ~first => calls = 2
             /\ pc' # "restarting"]_vars

(***************************************************************************)
(* C21: the session password                                               *)
(***************************************************************************)
\* a string of exactly 8 decimal digits
EightDigits(p) == Len(p) = 8 /\ \A i \in 1..Len(p) : p[i] \in 0..9

\* apPassword where the firmware uses it
PasswordInUse ==
    /\ InLog("setupWiFi") => EightDigits(apPassword)
    /\ softAP.up => (softAP.password = apPassword /\ EightDigits(apPassword))
    /\ pc = "portal" => (softAP.up /\ softAP.password = apPassword)
    /\ displayState.apMode => displayState.apPassword = apPassword

\* apPassword is assigned
PasswordAssigned == apPassword' # apPassword

\* C21: in one boot session apPassword is generated once, by setupWiFi and
\* from the empty string, before any access point or portal is started; it
\* is a string of exactly 8 decimal digits; every later use (failsafe access
\* point, config portal, fallback access point of handleWiFiConnect,
\* display) sees that value until the next restart; no access point or
\* portal is started with an empty password.
C21_SessionPasswordStable ==
    [][/\ PasswordInUse'
       /\ PasswordAssigned =>
            \/ pc' = "setup" /\ apPassword' = <<>>
            \/ /\ pc = "setup_wifi"
               /\ apPassword = <<>>
               /\ apStarts = <<>>
               /\ ~softAP.up
               /\ EightDigits(apPassword')]_vars

\* the fallback access point of handleWiFiConnect runs under the password
\* setupWiFi generated
C21_Witness ==
    /\ InLoop
    /\ requests > 0
    /\ Len(apStarts) >= 2
    /\ softAP.up
    /\ softAP.password = apPassword
    /\ EightDigits(apPassword)
    /\ displayState.apPassword = apPassword

(***************************************************************************)
(* C22: the steps of a factory reset                                       *)
(***************************************************************************)
\* the names under which the steps of a reset enter bootLog
ResetStepNames ==
    {"reset:credentials", "reset:settings", "reset:bootCounter",
     "reset:powerCycleCounter", "reset:format"}

IsResetStep(e) == e \in ResetStepNames

\* the reset steps this session has run, in order
ResetSteps == SelectSeq(bootLog, IsResetStep)

\* C22: every factory reset, at boot after 5 power cycles and on request
\* over the web, has run these steps in this order when it restarts: erase
\* the network credentials, restore and persist the default settings, reset
\* the boot-failure counter and the power-cycle counter, format the file
\* storage (whose failure does not stop the restart).
C22_FactoryResetSteps ==
    FactoryResetRestart =>
        ResetSteps = << "reset:credentials", "reset:settings", "reset:bootCounter",
                        "reset:powerCycleCounter", "reset:format" >>

(***************************************************************************)
(* C23: what the emergency reset touches                                   *)
(***************************************************************************)
\* a step of the emergency reset of setup()
EmergencyResetStep == InBootEmergencyReset /\ pc' # "setup"

\* C23: the emergency reset, run when the boot-failure count has reached
\* its threshold, writes only the persisted settings (validated defaults)
\* and the boot-failure counter (0); the network credentials, the file
\* storage and the power-cycle counter stay as they were; it ends in
\* ESP.restart().
C23_EmergencyResetFrame ==
    [][EmergencyResetStep =>
         /\ flashSSID' = flashSSID
         /\ staSSID' = staSSID
         /\ fsMountable' = fsMountable
         /\ eePower' = eePower
         /\ PersistedDefaults'
         /\ IF pc = "emergency_settings"
            THEN pc' = "emergency_boot" /\ eeBoot' = eeBoot
            ELSE /\ pc' = "restarting"
                 /\ restartReason' = "emergencyReset"
                 /\ eeBoot'.magic = BOOT_COUNTER_MAGIC
                 /\ bootCounterGet(eeBoot') = 0
                 /\ UNCHANGED << eeSettingsMagic, eeSettings >>]_vars

\* the emergency reset has reached its restart with the credentials and the
\* power-cycle count still in place
C23_Witness ==
    /\ pc = "restarting"
    /\ restartReason = "emergencyReset"
    /\ InLog("emergencyReset")
    /\ PersistedDefaults
    /\ bootCounterGet(eeBoot) = 0
    /\ powerCycleCounterGet(eePower) > 0
    /\ flashSSID

(***************************************************************************)
(* C24: writes are committed when the operation returns                    *)
(***************************************************************************)
\* C24: settingsSave, bootCounterIncrement, bootCounterReset,
\* powerCycleCounterIncrement and powerCycleCounterReset commit before they
\* return: after every operation the committed EEPROM contents equal the
\* write buffer, and a power loss or restart between two operations finds
\* in the EEPROM everything the buffer held.
C24_WritesCommitted ==
    [][/\ eeBuffer' = Flash'
       /\ pc' = "setup" => Flash' = eeBuffer]_vars

\* power was lost after the counters and the settings had been written
C24_Witness ==
    /\ pc = "setup"
    /\ eeSettingsMagic = SETTINGS_MAGIC
    /\ bootCounterGet(eeBoot) >= 1
    /\ powerCycleCounterGet(eePower) >= 1
    /\ eeBuffer = Flash

(***************************************************************************)
(* C25: the counters are incremented once, first                           *)
(***************************************************************************)
\* how often phase e was begun in this boot session
TimesLogged(e) == Cardinality({ i \in 1..Len(bootLog) : bootLog[i] = e })

\* the two increments are the first two entries of the session's log and
\* occur nowhere else in it, so every other phase comes after them
IncrementsFirst ==
    \A i \in 1..Len(bootLog) :
       /\ (bootLog[i] = "bootCounterInit") <=> (i = 1)
       /\ (bootLog[i] = "powerCycleCounterInit") <=> (i = 2)

\* C25: in every boot session the boot-failure counter and the power-cycle
\* counter are each incremented exactly once, as the first two steps of
\* setup(): before both threshold checks and before settings load, display,
\* filesystem, WiFi and web server initialisation; neither is incremented
\* again later in the session.
C25_CountersIncrementedOnceFirst ==
    [][/\ IncrementsFirst'
       /\ (pc = "setup" /\ pc' # "setup") =>
             /\ bootLog = <<>>
             /\ eeBoot' = bootCounterIncrement(eeBoot)
             /\ bootLog' = << "bootCounterInit" >>
       /\ (pc = "setup_power" /\ pc' # "setup") =>
             /\ bootLog = << "bootCounterInit" >>
             /\ eePower' = powerCycleCounterIncrement(eePower)
             /\ bootLog' = << "bootCounterInit", "powerCycleCounterInit" >>
       /\ eeBoot' = bootCounterIncrement(eeBoot) => pc = "setup"
       /\ eePower' = powerCycleCounterIncrement(eePower) => pc = "setup_power"]_vars

\* a session has come to the main loop on one increment of each counter
C25_Witness ==
    /\ pc = "loop"
    /\ TimesLogged("bootCounterInit") = 1
    /\ TimesLogged("powerCycleCounterInit") = 1
    /\ InLog("webserverInit")
    /\ Before("powerCycleCounterInit", "powerCycleCheck")
(***************************************************************************)
(* The boot-failure counter on its own (settings.cpp): the three functions *)
(* called in any order on any contents of the counter's region             *)
(***************************************************************************)
\* what the region at BOOT_COUNTER_ADDR can hold: erased flash, bytes of
\* something else, and a counter record with each value of the uint8_t
BootRecords ==
    {ErasedBoot, [magic |-> 0, failCount |-> 7]}
      \cup { [magic |-> BOOT_COUNTER_MAGIC, failCount |-> f] : f \in 0..255 }

\* the variables the boot-failure counter does not touch
aroundCounter == << eeSettingsMagic, eeSettings, eePower, flashSSID, fsMountable,
                    appSettings, lastWiFiCheck, lastWiFiReconnectAttempt,
                    wifiFailsafeMode, apPassword, powerCycleCounterCleared,
                    millis, radio, displayState, panel, tc, portal,
                    restartReason, apStarts, servicesUp, requests >>

CounterInit ==
    /\ eeBoot \in BootRecords
    /\ eeSettingsMagic = ERASED16
    /\ eeSettings = ErasedSettings
    /\ eePower = ErasedPower
    /\ eeBuffer = Flash
    /\ appSettings = ZeroSettings
    /\ pc = "counter_idle"
    /\ flashSSID = FALSE
    /\ fsMountable = TRUE
    /\ lastWiFiCheck = 0
    /\ lastWiFiReconnectAttempt = 0
    /\ wifiFailsafeMode = FALSE
    /\ apPassword = <<>>
    /\ powerCycleCounterCleared = FALSE
    /\ millis = 0
    /\ wifiMode = "STA"
    /\ softAP = NoAP
    /\ linkUp = FALSE
    /\ staSSID = FALSE
    /\ portalTimeout = 0
    /\ displayState = DisplayBoot
    /\ tc = NoTry
    /\ portal = NoPortal
    /\ bootLog = <<>>
    /\ restartReason = "none"
    /\ apStarts = <<>>
    /\ panel = "blank"
    /\ servicesUp = FALSE
    /\ requests = 0
    /\ LoggerStart

\* bootCounterIncrement(), lines 140-160; the log tells which branch ran
CounterIncrement ==
    /\ Len(bootLog) < MaxCount
    /\ bootLog' = Append(bootLog,
                         IF eeBuffer.boot.magic = BOOT_COUNTER_MAGIC
                         THEN "bootCounterIncrement"
                         ELSE "bootCounterIncrement:init")
    /\ eeBuffer' = [eeBuffer EXCEPT !.boot = bootCounterIncrement(eeBuffer.boot)]
    /\ eeBoot' = eeBuffer'.boot
    /\ pc' = "counter_incremented"
    /\ UNCHANGED aroundCounter
    /\ UNCHANGED logvars

\* bootCounterReset(), lines 162-172
CounterReset ==
    /\ Len(bootLog) < MaxCount
    /\ bootLog' = Append(bootLog, "bootCounterReset")
    /\ eeBuffer' = [eeBuffer EXCEPT !.boot = bootCounterReset]
    /\ eeBoot' = eeBuffer'.boot
    /\ pc' = "counter_reset"
    /\ UNCHANGED aroundCounter
    /\ UNCHANGED logvars

\* bootCounterCheckFailsafe(), lines 174-183; pc holds what it returned
CounterCheck ==
    /\ pc \in {"counter_idle", "counter_incremented", "counter_reset"}
    /\ pc' = IF bootCounterCheckFailsafe(eeBuffer.boot)
             THEN "counter_failsafe" ELSE "counter_no_failsafe"
    /\ UNCHANGED << eeBoot, eeBuffer, bootLog, aroundCounter >>
    /\ UNCHANGED logvars

CounterNext ==
    \/ CounterIncrement
    \/ CounterReset
    \/ CounterCheck

CounterSpec == CounterInit /\ [][CounterNext]_vars

(***************************************************************************)
(* C26: what an increment and a reset leave in the counter                 *)
(***************************************************************************)
\* the failCount the region holds, 0 without the magic
PersistedFailCount ==
    IF eeBoot.magic = BOOT_COUNTER_MAGIC THEN eeBoot.failCount ELSE 0

LastCall == bootLog[Len(bootLog)]

IncrementCalled ==
    /\ Len(bootLog') = Len(bootLog) + 1
    /\ LastCall' \in {"bootCounterIncrement", "bootCounterIncrement:init"}

ResetCalled ==
    /\ Len(bootLog') = Len(bootLog) + 1
    /\ LastCall' = "bootCounterReset"

\* C26: whatever the counter's region held before (no magic, or the magic
\* with any failCount in 0..255), bootCounterIncrement leaves a persisted
\* failCount that is greater than the one before by exactly one (1 when the
\* magic was absent), and bootCounterReset leaves failCount 0 with a valid
\* magic.
C26_IncrementAddsOneResetGivesZero ==
    [][/\ IncrementCalled =>
             /\ eeBoot'.magic = BOOT_COUNTER_MAGIC
             /\ eeBoot'.failCount = PersistedFailCount + 1
             /\ eeBoot'.failCount > PersistedFailCount
       /\ ResetCalled =>
             /\ eeBoot'.magic = BOOT_COUNTER_MAGIC
             /\ eeBoot'.failCount = 0]_vars

(***************************************************************************)
(* C27: when bootCounterCheckFailsafe returns true                         *)
(***************************************************************************)
\* a call that leaves a known count: 0 after a reset, 1 after the increment
\* of a counter without magic
IsStart(e) == e \in {"bootCounterReset", "bootCounterIncrement:init"}

HasStart == \E i \in 1..Len(bootLog) : IsStart(bootLog[i])

\* the increments made since the counter last was reset or absent
ConsecutiveIncrements ==
    LET i == CHOOSE k \in 1..Len(bootLog) :
                 /\ IsStart(bootLog[k])
                 /\ \A j \in (k + 1)..Len(bootLog) : ~IsStart(bootLog[j])
    IN  (Len(bootLog) - i) + (IF bootLog[i] = "bootCounterReset" THEN 0 ELSE 1)

CheckReturned == pc \in {"counter_failsafe", "counter_no_failsafe"}

\* C27: bootCounterCheckFailsafe returns true exactly when the persisted
\* failCount, 0 without the magic, is at least 5; after 5 consecutive
\* increments of a reset or absent counter it returns true, after 4 (or
\* fewer) false.
C27_FailsafeAtFive ==
    CheckReturned =>
        /\ (pc = "counter_failsafe") <=> (PersistedFailCount >= 5)
        /\ HasStart => ((pc = "counter_failsafe") <=> (ConsecutiveIncrements >= 5))

C27_Witness ==
    /\ pc = "counter_failsafe"
    /\ bootLog = << "bootCounterReset", "bootCounterIncrement",
                    "bootCounterIncrement", "bootCounterIncrement",
                    "bootCounterIncrement", "bootCounterIncrement" >>

(***************************************************************************)
(* C28: the fifth quick power cycle                                        *)
(***************************************************************************)
\* the cycleCount the region holds, 0 without the magic
PersistedCycleCount ==
    IF eePower.magic = POWER_CYCLE_COUNTER_MAGIC THEN eePower.cycleCount ELSE 0

\* the step of setup() that calls powerCycleCounterInit, once on every boot
PowerCycleCounted == pc = "setup_power" /\ ~Reboot

\* the step of setup() that calls powerCycleCounterCheckReset
PowerCycleChecked == pc = "setup_check_power" /\ ~Reboot

\* a step of the boot-time factory reset
BootFactoryResetStep == InBootFactoryReset /\ ~Reboot

\* C28: every boot adds one to the persisted power-cycle count and nothing
\* else changes the count except a reset to 0, so the count at the check is
\* the number of boots since the counter last was reset or absent; on the
\* boot that makes it 5, after 5 boots whose sessions ended before the
\* grace-period clear, powerCycleCounterCheckReset returns true and setup()
\* runs the factory reset up to its restart; with fewer than 5 it returns
\* false and the boot goes on.
C28_FifthPowerCycleResets ==
    [][/\ PowerCycleCounted =>
             /\ PersistedCycleCount' = PersistedCycleCount + 1
             /\ pc' = "setup_check_power"
       /\ ~PowerCycleCounted =>
             \/ eePower' = eePower
             \/ eePower'.magic = POWER_CYCLE_COUNTER_MAGIC /\ eePower'.cycleCount = 0
       /\ PowerCycleChecked =>
             /\ PersistedCycleCount >= 1
             /\ PersistedCycleCount >= 5 => pc' = "factory_wifi"
             /\ PersistedCycleCount < 5 => pc' = "setup_check_boot"
       /\ BootFactoryResetStep =>
             \/ InBootFactoryReset' /\ pc' # pc
             \/ FactoryResetRestart'
       /\ InBootFactoryReset' => (InBootFactoryReset \/ PowerCycleChecked)]_vars

C28_Witness ==
    /\ pc = "factory_wifi"
    /\ bootLog = << "bootCounterInit", "powerCycleCounterInit", "powerCycleCheck" >>
    /\ PersistedCycleCount = 5

(***************************************************************************)
(* C29: the first boot of a device whose EEPROM is erased                  *)
(***************************************************************************)
\* none of the three regions holds its magic
ErasedStorage ==
    /\ eeSettingsMagic # SETTINGS_MAGIC
    /\ eeBoot.magic # BOOT_COUNTER_MAGIC
    /\ eePower.magic # POWER_CYCLE_COUNTER_MAGIC

\* the record in RAM is the validated factory defaults
LoadedDefaults ==
    /\ settingsValidate(appSettings)
    /\ Fields(appSettings) = Fields(settingsReset(appSettings))

\* the states the boot from erased storage passes through, up to setupWiFi():
\* what each region holds once setup() has reached the step
FirstBootState ==
    \/ /\ pc = "setup"
       /\ ErasedStorage
    \/ /\ pc = "setup_power"
       /\ eeBoot = [magic |-> BOOT_COUNTER_MAGIC, failCount |-> 1]
       /\ eePower.magic # POWER_CYCLE_COUNTER_MAGIC
       /\ eeSettingsMagic # SETTINGS_MAGIC
    \/ /\ pc \in {"setup_check_power", "setup_check_boot", "setup_load"}
       /\ eeBoot = [magic |-> BOOT_COUNTER_MAGIC, failCount |-> 1]
       /\ eePower = [magic |-> POWER_CYCLE_COUNTER_MAGIC, cycleCount |-> 1]
       /\ eeSettingsMagic # SETTINGS_MAGIC
    \/ /\ pc \in {"setup_display", "setup_fs", "setup_wifi"}
       /\ eeBoot = [magic |-> BOOT_COUNTER_MAGIC, failCount |-> 1]
       /\ eePower = [magic |-> POWER_CYCLE_COUNTER_MAGIC, cycleCount |-> 1]
       /\ PersistedDefaults
       /\ LoadedDefaults

\* the order of setup() when no threshold trips
AfterStep(p) ==
    CASE p = "setup" -> "setup_power"
      [] p = "setup_power" -> "setup_check_power"
      [] p = "setup_check_power" -> "setup_check_boot"
      [] p = "setup_check_boot" -> "setup_load"
      [] p = "setup_load" -> "setup_display"
      [] p = "setup_display" -> "setup_fs"
      [] p = "setup_fs" -> "setup_wifi"

\* a step of the first boot before setupWiFi()
FirstBootStep == FirstBootState /\ pc # "setup_wifi" /\ ~Reboot

\* the step is setupFilesystem() finding that LittleFS does not mount
MountFails == pc = "setup_fs" /\ ~fsMountable

\* C29 as stated: from erased storage (no magic in any of the three
\* regions) the first boot persists a boot-failure record with count 1, a
\* power-cycle record with count 1 and settings equal to the validated
\* defaults, trips neither threshold, and goes on to display and WiFi
\* initialisation.
C29_FirstBootReachesWiFi ==
    [][FirstBootStep => (FirstBootState' /\ pc' = AfterStep(pc))]_vars

\* C29, amended: the same, except that the first boot goes on to WiFi
\* initialisation only when LittleFS mounts; when it does not, the boot
\* formats the filesystem after display initialisation and restarts, the
\* three records persisted as above.
C29_FirstBootFromErased ==
    [][FirstBootStep =>
         IF MountFails
         THEN /\ pc' = "restarting"
              /\ restartReason' = "fsFormat"
              /\ UNCHANGED << eeBoot, eePower, eeSettingsMagic, eeSettings >>
         ELSE FirstBootState' /\ pc' = AfterStep(pc)]_vars

C29_Witness ==
    /\ FirstBootState
    /\ pc = "setup_wifi"
    /\ millis = 100 + 500 + 2000
    /\ bootLog = << "bootCounterInit", "powerCycleCounterInit", "powerCycleCheck",
                    "bootFailureCheck", "settingsLoad", "displayInit",
                    "setupFilesystem" >>

(***************************************************************************)
(* C30: settingsReset                                                      *)
(***************************************************************************)
\* settingsReset has returned
ResetReturned == pc = "store_defaults"

\* C30: from any prior contents of the record, settingsReset yields version
\* = the firmware's schema version, brightness 70, theme 0, an empty image
\* path, GMT offset 3600, valid = true and a crc field equal to the CRC over
\* all the other fields, so that the result passes settingsValidate.
C30_ResetGivesValidDefaults ==
    [][ResetReturned' =>
          /\ appSettings'.version = FIRMWARE_VERSION
          /\ appSettings'.brightness = 70
          /\ appSettings'.theme = 0
          /\ appSettings'.lastImage = <<>>
          /\ appSettings'.gmtOffset = 3600
          /\ appSettings'.valid = TRUE
          /\ appSettings'.crc = CrcOfBytes(appSettings')
          /\ settingsValidate(appSettings')
          /\ settingsValidateRegion(SettingsRegion(appSettings'))]_vars

C30_Witness ==
    /\ ResetReturned
    /\ appSettings.brightness = 70
    /\ eeSettingsMagic = SETTINGS_MAGIC
    /\ eeSettings.theme = 10
    /\ Fields(eeSettings) # Fields(appSettings)

(***************************************************************************)
(* C31: what brings the power-cycle counter to its threshold               *)
(***************************************************************************)
\* this boot began with power being applied, not with an ESP.restart()
BootedByPowerUp == restartReason = "none"

\* C31: the factory reset of setup() fires only on a boot that follows
\* external power cycles; a boot begun by a restart of the firmware's own
\* (after the filesystem format, after an emergency reset, after a
\* reconnection or handleWiFiConnect) does not find the power-cycle
\* counter at its threshold.
C31_OnlyPowerCyclesTripReset ==
    InBootFactoryReset => BootedByPowerUp

BootNotYetJudged ==
    /\ bootLog # <<>>
    /\ ~BootResetRan
    /\ ~InLog("bootCounterReset")

\* the step is the boot-success checkpoint, WiFi setup and web server done
BootJudgedSuccessful ==
    /\ pc = "setup_success"
    /\ ~Reboot
    /\ Before("setupWiFi", "webserverInit")
    /\ InLog("webserverInit")
    /\ eeBoot' = [magic |-> BOOT_COUNTER_MAGIC, failCount |-> 0]

\* C33: in a session that trips no threshold the boot-failure counter keeps
\* its incremented, non-zero value all through setup() and is set to 0 only
\* after WiFi setup and web-server initialisation; a restart or a power loss
\* before that (the filesystem-format restart, for one) leaves the
\* incremented count persisted for the next boot.
C33_BootCounterClearedOnlyOnSuccess ==
    [][BootNotYetJudged =>
         /\ PersistedFailCount >= 1
         /\ eeBoot' = eeBoot \/ BootJudgedSuccessful]_vars

C33_Witness ==
    /\ pc = "setup"
    /\ restartReason = "fsFormat"
    /\ PersistedFailCount = 2

(***************************************************************************)
(* The first part of setup() over the whole range of the two counters:     *)
(* the increments, the two threshold checks and the two resets, with power *)
(* cut at any moment except between the two increments                     *)
(***************************************************************************)
\* the user removes and restores power once both counters have counted
PowerCutAfterCounting ==
    /\ pc \notin {"setup", "setup_power"}
    /\ ColdStart
    /\ restartReason' = "none"
    /\ UNCHANGED persistent
    /\ UNCHANGED logvars

\* ESP.restart() takes effect, whatever the counters hold
RestartAnyCount ==
    /\ pc = "restarting"
    /\ ColdStart
    /\ restartReason' = restartReason
    /\ UNCHANGED persistent
    /\ UNCHANGED logvars

BootNext ==
    \/ PowerCutAfterCounting
    \/ RestartAnyCount
    \/ SetupBootCounterInit
    \/ SetupPowerCycleCounterInit
    \/ SetupCheckPowerCycle
    \/ SetupFactoryWiFi
    \/ SetupFactorySettings
    \/ SetupFactoryBootCounter
    \/ SetupFactoryPowerCounter
    \/ SetupCheckBootFailure
    \/ SetupEmergencySettings
    \/ SetupEmergencyBootCounter
    \/ SetupSettingsLoad

BootSpec == Init /\ [][BootNext]_vars

(***************************************************************************)
(* C34: the order of the two counts                                        *)
(***************************************************************************)
\* setup() is at one of its two threshold checks
AtThresholdCheck == pc \in {"setup_check_power", "setup_check_boot"}

\* C34: with both regions erased at the start and no power loss between
\* the two increments of a boot, the persisted power-cycle count is at
\* least the persisted boot-failure count at every boot-time threshold
\* check, whatever boots, resets and power cuts came before.
C34_PowerCountAtLeastBootCount ==
    AtThresholdCheck => PersistedCycleCount >= PersistedFailCount

(***************************************************************************)
(* C35: handleWiFiConnect that does not restart                            *)
(***************************************************************************)
\* handleWiFiConnect returns after its 40 polls of 500 ms found no link
ConnectGaveUp ==
    /\ pc = "loop_handle"
    /\ pc' = "loop"
    /\ requests' = requests + 1
    /\ millis' = millis + 100 + 200 + 40 * 500

\* C35: when handleWiFiConnect returns without a restart, from Connected or
\* from FailsafeAP mode, it has polled the link at most 40 times, has
\* started the access point again under the session password and leaves the
\* device in FailsafeAP mode, wifiFailsafeMode true, in agreement with the
\* radio.
C35_ConnectFailureIsFailsafe ==
    [][ConnectGaveUp =>
         /\ wifiMode' = "AP"
         /\ Len(apStarts') = Len(apStarts) + 1
         /\ softAP'.up => softAP'.password = apPassword
         /\ wifiFailsafeMode'
         /\ Mode' = "FailsafeAP"]_vars

(***************************************************************************)
(* C36: the Connected-mode services                                        *)
(***************************************************************************)
\* loop() is about to run ArduinoOTA.handle(), MDNS.update() and
\* timeClient.update(), lines 768-772
RunsServiceHandlers == pc = "loop_handle" /\ ~wifiFailsafeMode

\* C36: whenever an iteration of loop() runs the Connected-mode service
\* handlers, setup() has initialised NTP, mDNS and OTA earlier in the same
\* boot session.
C36_ServicesInitialisedBeforeUse ==
    RunsServiceHandlers => servicesUp

(***************************************************************************)
(* The EEPROM layout (settings.cpp lines 3-10, settings.h)                 *)
(***************************************************************************)
EEPROM_SIZE == 512
SETTINGS_ADDR == 0

\* sizeof(Settings): the bytes EEPROM.put writes for the record
SizeofSettings == Len(SettingsRegion(ZeroSettings))

\* sizeof(BootCounter): uint16_t, uint8_t, padding to the uint32_t, uint32_t
SizeofBootCounter == 8

\* sizeof(PowerCycleCounter): uint16_t, uint8_t, one byte of padding
SizeofPowerCycleCounter == 4

\* a layout that forgets the two bytes of the settings magic
BOOT_COUNTER_ADDR_NoMagic == SETTINGS_ADDR + SizeofSettings

BOOT_COUNTER_ADDR == SETTINGS_ADDR + 2 + SizeofSettings

POWER_CYCLE_COUNTER_ADDR == BOOT_COUNTER_ADDR + SizeofBootCounter

\* the addresses EEPROM.put(addr, value) writes, size = sizeof(value)
PutRange(addr, size) == addr..(addr + size - 1)

\* settingsSave: EEPROM.put(SETTINGS_ADDR, magic) and
\* EEPROM.put(SETTINGS_ADDR + 2, tempSettings)
SettingsRange ==
    PutRange(SETTINGS_ADDR, 2) \cup PutRange(SETTINGS_ADDR + 2, SizeofSettings)

\* bootCounterIncrement, bootCounterReset: EEPROM.put(BOOT_COUNTER_ADDR, counter)
BootCounterRange == PutRange(BOOT_COUNTER_ADDR, SizeofBootCounter)

\* powerCycleCounterIncrement, powerCycleCounterReset
PowerCycleCounterRange ==
    PutRange(POWER_CYCLE_COUNTER_ADDR, SizeofPowerCycleCounter)

(***************************************************************************)
(* C37: each operation writes its own region only                          *)
(***************************************************************************)
SettingsWritten ==
    eeSettingsMagic' # eeSettingsMagic \/ eeSettings' # eeSettings

InsideEEPROM(range) == range \subseteq 0..(EEPROM_SIZE - 1)

\* C37: each operation on a persisted region changes that region only:
\* settingsSave leaves both counters as they are, bootCounterIncrement and
\* bootCounterReset leave the settings record and the power-cycle counter,
\* powerCycleCounterIncrement and powerCycleCounterReset leave the settings
\* record and the boot-failure counter; the bytes each of them writes lie
\* inside the EEPROM and outside the other two regions.
C37_OperationsWriteOwnRegion ==
    [][/\ SettingsWritten =>
             /\ eeBoot' = eeBoot /\ eePower' = eePower
             /\ InsideEEPROM(SettingsRange)
             /\ SettingsRange \cap (BootCounterRange \cup PowerCycleCounterRange) = {}
       /\ eeBoot' # eeBoot =>
             /\ ~SettingsWritten /\ eePower' = eePower
             /\ InsideEEPROM(BootCounterRange)
             /\ BootCounterRange \cap (SettingsRange \cup PowerCycleCounterRange) = {}
       /\ eePower' # eePower =>
             /\ ~SettingsWritten /\ eeBoot' = eeBoot
             /\ InsideEEPROM(PowerCycleCounterRange)
             /\ PowerCycleCounterRange \cap (SettingsRange \cup BootCounterRange) = {}]_vars

C37_Witness ==
    /\ pc = "loop_handle"
    /\ powerCycleCounterCleared
    /\ eeSettingsMagic = SETTINGS_MAGIC
    /\ eeBoot = [magic |-> BOOT_COUNTER_MAGIC, failCount |-> 0]
    /\ eePower = [magic |-> POWER_CYCLE_COUNTER_MAGIC, cycleCount |-> 0]

(***************************************************************************)
(* logger.cpp: the ring buffer of log lines                                *)
(***************************************************************************)
LOG_LINE_LENGTH == 128
NEWLINE == 10

\* logPrint(msg), lines 13-25: the globals it leaves; the strncpy of line 18
\* and the '\0' of line 19 leave the C string that strncpy gives
logPrint(buffer, index, count, msg) ==
    [buffer |-> [buffer EXCEPT ![index] = strncpy(msg, LOG_LINE_LENGTH - 1)],
     index |-> (index + 1) % LOG_BUFFER_SIZE,
     count |-> IF count < LOG_BUFFER_SIZE THEN count + 1 ELSE count]

logGetAll_FromZero(buffer, index, count) ==
    LET start == 0
        entries == IF count < LOG_BUFFER_SIZE THEN count ELSE LOG_BUFFER_SIZE
        RECURSIVE Loop(_, _)
        Loop(i, result) ==
            IF i < entries
            THEN Loop(i + 1, result \o buffer[(start + i) % LOG_BUFFER_SIZE] \o <<NEWLINE>>)
            ELSE result
    IN  Loop(0, <<>>)

\* logGetAll(), lines 37-51: the String it returns
logGetAll(buffer, index, count) ==
    LET start == IF count < LOG_BUFFER_SIZE THEN 0 ELSE index
        entries == IF count < LOG_BUFFER_SIZE THEN count ELSE LOG_BUFFER_SIZE
        RECURSIVE Loop(_, _)
        Loop(i, result) ==
            IF i < entries
            THEN Loop(i + 1, result \o buffer[(start + i) % LOG_BUFFER_SIZE] \o <<NEWLINE>>)
            ELSE result
    IN  Loop(0, <<>>)

(***************************************************************************)
(* The logger alone: any sequence of calls of its three functions          *)
(***************************************************************************)
MaxLogCalls == 103
MaxLineLength == 130

\* the lengths of the messages the callers pass, in the order they take turns
LineLengths ==
    << 0, MaxLineLength, 1, LOG_LINE_LENGTH - 1, LOG_LINE_LENGTH, 2 >>

\* the message of the n-th call: len printable characters that tell n
Text(n, len) == [i \in 1..len |-> 32 + (n % 95)]

\* the first caller passes a message of any of the lengths, each later one
\* the length that follows the previous call's
NextLengths ==
    IF logCalls = <<>>
    THEN { LineLengths[k] : k \in 1..Len(LineLengths) }
    ELSE LET last == Len(logCalls[Len(logCalls)])
             k == CHOOSE j \in 1..Len(LineLengths) : LineLengths[j] = last
         IN  { LineLengths[(k % Len(LineLengths)) + 1] }

\* the variables the logger does not touch
aroundLogger == << eeprom, eeBuffer, flashSSID, fsMountable, appSettings,
                   lastWiFiCheck, lastWiFiReconnectAttempt, wifiFailsafeMode,
                   apPassword, powerCycleCounterCleared, millis, radio,
                   displayState, panel, tc, portal, history >>

LoggerInit ==
    /\ eeSettingsMagic = ERASED16
    /\ eeSettings = ErasedSettings
    /\ eeBoot = ErasedBoot
    /\ eePower = ErasedPower
    /\ eeBuffer = Flash
    /\ appSettings = ZeroSettings
    /\ pc = "logger_idle"
    /\ flashSSID = FALSE
    /\ fsMountable = TRUE
    /\ lastWiFiCheck = 0
    /\ lastWiFiReconnectAttempt = 0
    /\ wifiFailsafeMode = FALSE
    /\ apPassword = <<>>
    /\ powerCycleCounterCleared = FALSE
    /\ millis = 0
    /\ wifiMode = "STA"
    /\ softAP = NoAP
    /\ linkUp = FALSE
    /\ staSSID = FALSE
    /\ portalTimeout = 0
    /\ displayState = DisplayBoot
    /\ tc = NoTry
    /\ portal = NoPortal
    /\ bootLog = <<>>
    /\ restartReason = "none"
    /\ apStarts = <<>>
    /\ panel = "blank"
    /\ servicesUp = FALSE
    /\ requests = 0
    /\ LoggerStart

\* loggerInit(), lines 7-11
CallLoggerInit ==
    /\ logBuffer' = EmptyLogBuffer
    /\ logIndex' = 0
    /\ logCount' = 0
    /\ logCalls' = <<>>
    /\ logResult' = <<>>
    /\ pc' = "logger_init"
    /\ UNCHANGED aroundLogger

\* logPrint(msg) by any caller; a handler's String from logGetAll is gone by then
CallLogPrint ==
    /\ Len(logCalls) < MaxLogCalls
    /\ \E len \in NextLengths :
         LET msg == Text(Len(logCalls) + 1, len)
             after == logPrint(logBuffer, logIndex, logCount, msg)
         IN  /\ logBuffer' = after.buffer
             /\ logIndex' = after.index
             /\ logCount' = after.count
             /\ logCalls' = Append(logCalls, msg)
    /\ logResult' = <<>>
    /\ pc' = "logger_printed"
    /\ UNCHANGED aroundLogger

\* handleLog(), webserver.cpp lines 551-554: String log = logGetAll()
CallLogGetAll ==
    /\ pc # "logger_read"
    /\ logResult' = logGetAll(logBuffer, logIndex, logCount)
    /\ pc' = "logger_read"
    /\ UNCHANGED << logBuffer, logIndex, logCount, logCalls, aroundLogger >>

LoggerNext ==
    \/ CallLoggerInit
    \/ CallLogPrint
    \/ CallLogGetAll

LoggerSpec == LoggerInit /\ [][LoggerNext]_vars

(***************************************************************************)
(* C38: what logGetAll returns                                             *)
(***************************************************************************)
\* the most recent min(n, 50) of the n messages passed since loggerInit
RecentMessages ==
    LET n == Len(logCalls)
    IN  SubSeq(logCalls, n - Min(n, LOG_BUFFER_SIZE) + 1, n)

\* the messages, oldest first, one line each
RECURSIVE Lines(_)
Lines(msgs) ==
    IF msgs = <<>> THEN <<>>
    ELSE Head(msgs) \o <<NEWLINE>> \o Lines(Tail(msgs))

\* each message cut after its first LOG_LINE_LENGTH - 1 characters
CutToLine(msgs) ==
    [i \in 1..Len(msgs) |->
        IF Len(msgs[i]) < LOG_LINE_LENGTH THEN msgs[i]
        ELSE [j \in 1..(LOG_LINE_LENGTH - 1) |-> msgs[i][j]]]

RingInBounds ==
    /\ logCount \in 0..LOG_BUFFER_SIZE
    /\ logIndex \in 0..(LOG_BUFFER_SIZE - 1)

GetAllReturned == pc = "logger_read"

\* C38 as stated: after n logPrint calls since loggerInit, logGetAll returns
\* exactly the most recent min(n, 50) messages, oldest first, each once;
\* logCount never exceeds 50 and logIndex stays in 0..49.
C38_GetAllReturnsRecentMessages ==
    /\ RingInBounds
    /\ GetAllReturned => logResult = Lines(RecentMessages)

\* C38, amended: after n logPrint calls since loggerInit, logGetAll returns
\* the most recent min(n, 50) messages, oldest first, each once, and each cut
\* after its first 127 characters; logCount never exceeds 50 and logIndex
\* stays in 0..49.
C38_GetAllReturnsRecentLines ==
    /\ RingInBounds
    /\ logCount = Min(Len(logCalls), LOG_BUFFER_SIZE)
    /\ GetAllReturned => logResult = Lines(CutToLine(RecentMessages))

\* logGetAll has returned after more than 50 calls, the oldest of which are
\* overwritten, and a message of 128 characters or more is among the recent
C38_Witness ==
    /\ GetAllReturned
    /\ Len(logCalls) > LOG_BUFFER_SIZE
    /\ logCount = LOG_BUFFER_SIZE
    /\ \E i \in 1..Len(RecentMessages) : Len(RecentMessages[i]) >= LOG_LINE_LENGTH

=============================================================================
